---- MODULE Spec2Model ----
(***************************************************************************)
(* X Research MCP server: session-scoped credential resolution and tool    *)
(* dispatch.  Two deployments of the server are modelled, selected by the  *)
(* variable `version`:                                                     *)
(*   "1.2.0"  Streamable HTTP, single /mcp endpoint   (src/unnamed/part_002)*)
(*   "1.1.0"  SSE transport, /sse and /messages       (src/unnamed/part_001)*)
(* Both share the Postgres adapter src/mcp-server/src/db.ts and the X API  *)
(* wrapper src/mcp-server/src/api.ts.                                      *)
(*                                                                         *)
(* Strings are sequences of characters, so that trim(), truthiness and     *)
(* substring containment are computed and not assumed.                     *)
(***************************************************************************)
EXTENDS Integers, Sequences, FiniteSets, TLC

\* ---------------------------------------------------------------------------
\* Bounds of the model
\* ---------------------------------------------------------------------------

\* connections opened in one behaviour
MaxConns == 2

\* tool invocations (tools/call requests) in one behaviour
MaxCalls == 1
MaxTenantCalls == 2
MaxLen == 3

\* ---------------------------------------------------------------------------
\* Strings
\* ---------------------------------------------------------------------------

SP == " "

\* JavaScript null / undefined (a query parameter or argument that is absent)
Null == <<"null">>

\* !x for a string-or-null value: null, undefined and "" are falsy
Truthy(x) == x # Null /\ x # <<>>

RECURSIVE TrimStart(_)
TrimStart(s) == IF s # <<>> /\ Head(s) = SP THEN TrimStart(Tail(s)) ELSE s

RECURSIVE TrimEnd(_)
TrimEnd(s) ==
    IF s # <<>> /\ s[Len(s)] = SP THEN TrimEnd(SubSeq(s, 1, Len(s) - 1)) ELSE s

\* String.prototype.trim
Trim(s) == TrimEnd(TrimStart(s))

\* needle occurs in hay as a contiguous substring
IsSubstr(needle, hay) ==
    \E i \in 1..(Len(hay) - Len(needle) + 1) :
        SubSeq(hay, i, i + Len(needle) - 1) = needle

EndsWith(s, suffix) ==
    /\ Len(suffix) <= Len(s)
    /\ SubSeq(s, Len(s) - Len(suffix) + 1, Len(s)) = suffix

\* the text of the n-th identifier produced by gen_random_uuid(): identifiers
\* are opaque and pairwise distinct (PRIMARY KEY)
Uuid(n) == <<"uuid", ToString(n)>>

IsUuid(s) == Len(s) = 2 /\ s[1] = "uuid"

\* a string that Postgres rejects as input for a UUID column
NotAUuid == <<"x">>

\* ---------------------------------------------------------------------------
\* Inputs
\* ---------------------------------------------------------------------------

\* values of the bearer_token argument and of the x_bearer_token parameter
Tokens == {Null, <<>>, <<SP>>, <<SP, "a">>, <<"b">>}

\* the deployments: the server version and process.env.PUBLIC_URL after
\* .replace(/\/$/, ""), which is empty when the variable is not set
Deployments ==
    {[version |-> "1.1.0", PUBLIC_URL |-> <<>>],
     [version |-> "1.2.0", PUBLIC_URL |-> <<"https://h">>]}

ToolNames == {"setup_session", "search_x", "get_profile", "get_thread",
              "get_tweet", "nope"}

VARIABLES
    version,           \* which server is deployed
    PUBLIC_URL,        \* external base address
    mcp_sessions,      \* table mcp_sessions: sequence of rows
    mcp_interactions,  \* table mcp_interactions: the rows the last step inserted
                       \* (the table is append-only and the server never reads it)
    sessions,          \* active connections: token -> dispatcher closure
    nextConn,          \* connection tokens handed out so far
    nCalls,            \* tool invocations received so far
    calls,             \* tool invocations whose handler has not returned yet
    returned,          \* the tool invocation whose handler returned in the last step
    http               \* the HTTP request handled in the last step

vars == <<version, PUBLIC_URL, mcp_sessions, mcp_interactions, sessions,
          nextConn, nCalls, calls, returned, http>>

\* ---------------------------------------------------------------------------
\* Credential store adapter and interaction logger (db.ts)
\* ---------------------------------------------------------------------------

\* NOW(): the store's time advances with every request the server handles
clock == nextConn + nCalls

\* a store call either resolves with a value or rejects
Resolved(v) == [rejected |-> FALSE, value |-> v]
Rejected == [rejected |-> TRUE, value |-> Null]

\* the row INSERT INTO mcp_sessions (bearer_token) VALUES ($1) adds
NewRow(bearerToken) ==
    [session_id   |-> Uuid(Len(mcp_sessions) + 1),
     bearer_token |-> bearerToken,
     created_at   |-> clock,
     last_used_at |-> clock]

\* createSession: resolves with the session_id of the inserted row
createSession(bearerToken, dbOk) ==
    IF dbOk THEN Resolved(NewRow(bearerToken).session_id) ELSE Rejected

\* variant of AfterCreate: the INSERT replaces the rows of the table
AfterCreate_Replace(bearerToken, dbOk) ==
    IF dbOk THEN <<NewRow(bearerToken)>> ELSE mcp_sessions

\* the table after createSession(bearerToken)
AfterCreate(bearerToken, dbOk) ==
    IF dbOk THEN Append(mcp_sessions, NewRow(bearerToken)) ELSE mcp_sessions

RowsOf(sessionId) ==
    {i \in 1..Len(mcp_sessions) : mcp_sessions[i].session_id = sessionId}

\* variant of getSessionToken: the WHERE clause is missing, the first row of
\* the table is returned
getSessionToken_FirstRow(sessionId, dbOk) ==
    IF ~dbOk \/ ~IsUuid(sessionId) THEN Rejected
    ELSE IF RowsOf(sessionId) = {} THEN Resolved(Null)
    ELSE Resolved(mcp_sessions[1].bearer_token)

\* getSessionToken: SELECT bearer_token ... WHERE session_id = $1; the column
\* is of type UUID, so a parameter that is not a UUID makes the query fail
getSessionToken(sessionId, dbOk) ==
    IF ~dbOk \/ ~IsUuid(sessionId) THEN Rejected
    ELSE IF RowsOf(sessionId) = {} THEN Resolved(Null)
    ELSE Resolved(mcp_sessions[CHOOSE i \in RowsOf(sessionId) : TRUE].bearer_token)

\* promise.catch(() => null)
CatchNull(r) == IF r.rejected THEN Null ELSE r.value

\* variant of touchSession: the UPDATE also sets created_at
touchSession_SetsCreated(sessionId) ==
    [i \in 1..Len(mcp_sessions) |->
        IF mcp_sessions[i].session_id = sessionId
        THEN [mcp_sessions[i] EXCEPT !.last_used_at = clock, !.created_at = clock]
        ELSE mcp_sessions[i]]

\* touchSession: UPDATE mcp_sessions SET last_used_at = NOW() WHERE ...
touchSession(sessionId) ==
    [i \in 1..Len(mcp_sessions) |->
        IF mcp_sessions[i].session_id = sessionId
        THEN [mcp_sessions[i] EXCEPT !.last_used_at = clock]
        ELSE mcp_sessions[i]]

\* the row logInteraction inserts: JSON.stringify keeps every field of the
\* request and of the response
LogRow(data) ==
    [user_identifier |-> data.userIdentifier,
     tool_name       |-> data.toolName,
     request         |-> data.request,
     response        |-> data.response]

\* ---------------------------------------------------------------------------
\* Tool dispatcher (createMcpServer)
\* ---------------------------------------------------------------------------

SETUP_TOOL == "setup_session"

X_TOOLS == <<"search_x", "get_profile", "get_thread", "get_tweet">>

\* route of the reconnection address
Route == IF version = "1.2.0" THEN <<"/mcp?session_id=">> ELSE <<"/sse?session_id=">>

\* variant of ToolList: a dispatcher with a token lists the data tools only
ToolList_DataOnly(bearerToken) ==
    IF Truthy(bearerToken) THEN X_TOOLS ELSE <<SETUP_TOOL>>

\* No token -> only setup_session; token present -> all tools
ToolList(bearerToken) ==
    IF Truthy(bearerToken) THEN <<SETUP_TOOL>> \o X_TOOLS ELSE <<SETUP_TOOL>>

\* the closure of one dispatcher instance
createMcpServer(bearerToken, dbSessionId) ==
    [bearerToken |-> bearerToken,
     dbSessionId |-> dbSessionId,
     tools       |-> ToolList(bearerToken)]

\* { error: message }; detail is the number the message carries, if any
ErrorResultN(msg, n) == [error |-> msg, detail |-> n]

ErrRequired == "bearer_token is required"
ErrNoToken == "No bearer token for this session. Please call setup_session({bearer_token: 'YOUR_TOKEN'}) first."
ErrUnknownTool == "Unknown tool"
ErrStore == "store failure"

\* the success payload of setup_session
SetupResult(newSessionId) ==
    [success    |-> TRUE,
     session_id |-> newSessionId,
     mcp_url    |-> PUBLIC_URL \o Route \o newSessionId]

\* ---------------------------------------------------------------------------
\* X API wrapper (api.ts)
\* ---------------------------------------------------------------------------

RATE_DELAY_MS == 350

\* raw tweets of the upstream payload: id and public_metrics (the text and
\* entity fields are copied through by parseTweets and are left out)
RawTweet(id, likes, impressions, retweets) ==
    [id |-> id, like_count |-> likes, impression_count |-> impressions,
     retweet_count |-> retweets]

RawA == RawTweet(1, 10, 5, 0)
RawB == RawTweet(2, 600, 0, 7)
RawC == RawTweet(3, 900, 5, 7)

\* the data arrays a search page can hold
RawPages == {<<RawA, RawC, RawB, RawC>>}

\* parseTweets: one Tweet per raw item, metrics defaulting to 0
parseTweets(data) ==
    [i \in 1..Len(data) |->
        [id |-> data[i].id,
         metrics |-> [likes       |-> data[i].like_count,
                      impressions |-> data[i].impression_count,
                      retweets    |-> data[i].retweet_count]]]

\* responses of the X API to one GET.  data is the array of a search page;
\* for the single-object endpoints it holds the object, or nothing when the
\* response carries no data.  reset holds the x-rate-limit-reset header, a time
\* in seconds, and is empty when the header is absent; now is Date.now(), in
\* milliseconds, when the response is handled.
NoHeader == <<>>

\* one response of the X API
Response(status, data, next_token, reset, now) ==
    [status |-> status, data |-> data, next_token |-> next_token,
     reset |-> reset, now |-> now]

\* nothing received yet
NoResponse == Response(0, <<>>, Null, NoHeader, 0)

NextTokens == {Null, <<"next">>}

SearchResponses ==
    {Response(200, data, next, NoHeader, 100500) : data \in RawPages, next \in NextTokens}
    \cup {Response(429, <<>>, Null, <<130>>, 100500)}

ObjectResponses ==
    {Response(200, data, Null, NoHeader, 100500) : data \in {<<>>, <<RawC>>}}
    \cup {Response(500, <<>>, Null, NoHeader, 100500)}

\* --- parseSince ---------------------------------------------------------------

\* times are in seconds since the epoch; the server was started on day 20000
BootTime == 20000 * 86400

\* Date.now()
DateNow == BootTime + clock

\* a Date holds a time at most 100,000,000 days from the epoch; any other is
\* an Invalid Date, for which toISOString throws a RangeError
MaxDateDays == 10000 * 10000

\* no time: the null of parseSince, for which the URL gets no start_time
NoTime == <<>>

Digits == <<"0", "1", "2", "3", "4", "5", "6", "7", "8", "9">>

IsDigit(c) == \E n \in 1..10 : Digits[n] = c

\* parseInt of a string of digits
RECURSIVE parseInt(_)
parseInt(s) ==
    IF s = <<>> THEN 0
    ELSE 10 * parseInt(SubSeq(s, 1, Len(s) - 1))
         + (CHOOSE n \in 0..9 : Digits[n + 1] = s[Len(s)])

\* since.match(/^(\d+)(m|h|d)$/)
IsRelative(since) ==
    /\ Len(since) >= 2
    /\ since[Len(since)] \in {"m", "h", "d"}
    /\ \A i \in 1..(Len(since) - 1) : IsDigit(since[i])

\* seconds in one unit
UnitSeconds(unit) ==
    CASE unit = "m" -> 60
      [] unit = "h" -> 3600
      [] OTHER      -> 86400

\* whole days in num units
WholeDays(num, unit) ==
    CASE unit = "m" -> num \div 1440
      [] unit = "h" -> num \div 24
      [] OTHER      -> num

\* since.includes(c)
Includes(since, c) == \E i \in 1..Len(since) : since[i] = c

\* an absolute timestamp, 2024-10-01T00:00:00Z, which is day 19997
IsoStamp == <<"2024", "-", "10", "-", "01", "T", "00:00:00Z">>

\* new Date(since): the time, or NoTime for an Invalid Date.  Of the strings
\* considered here only IsoStamp is a date.
DateParse(since) == IF since = IsoStamp THEN <<19997 * 86400>> ELSE NoTime

\* parseSince throws: a relative spec so long that now minus it is no Date
\* makes toISOString throw (the absolute branch catches the same error)
parseSinceThrows(since, now) ==
    /\ IsRelative(since)
    /\ WholeDays(parseInt(SubSeq(since, 1, Len(since) - 1)), since[Len(since)])
          > MaxDateDays + now \div 86400

\* parseSince when it returns: the start time, or NoTime for null
parseSince(since, now) ==
    IF IsRelative(since)
    THEN <<now - parseInt(SubSeq(since, 1, Len(since) - 1)) * UnitSeconds(since[Len(since)])>>
    ELSE IF Includes(since, "T") \/ Includes(since, "-")
    THEN DateParse(since)
    ELSE NoTime

ErrInvalidTime == "Invalid time value"

ErrRateLimited == "Rate limited. Resets in"
ErrUpstream == "X API"
ErrUserNotFound == "User not found"

Max(a, b) == IF a >= b THEN a ELSE b
Min(a, b) == IF a <= b THEN a ELSE b

\* apiGet: the error it throws for a response, or "ok"
apiGetThrows(res) == res.status # 200

\* variant of apiGetError: the wait is not raised to 1
apiGetError_NoFloor(res) ==
    IF res.status = 429
    THEN ErrorResultN(ErrRateLimited,
                      IF res.reset # NoHeader
                      THEN res.reset[1] - (res.now \div 1000)
                      ELSE 60)
    ELSE ErrorResultN(ErrUpstream, res.status)

apiGetError(res) ==
    IF res.status = 429
    THEN ErrorResultN(ErrRateLimited,
                      IF res.reset # NoHeader
                      THEN Max(res.reset[1] - (res.now \div 1000), 1)
                      ELSE 60)
    ELSE ErrorResultN(ErrUpstream, res.status)

\* Array.prototype.slice(0, end)
Slice0(s, end) ==
    IF end >= 0 THEN SubSeq(s, 1, Min(end, Len(s)))
    ELSE SubSeq(s, 1, Max(Len(s) + end, 0))

\* [...tweets].sort((a, b) => b.metrics[metric] - a.metrics[metric]): a stable
\* sort, descending; insertion after the last element that is not smaller
RECURSIVE InsertDesc(_, _, _)
InsertDesc(sorted, t, metric) ==
    IF sorted = <<>> THEN <<t>>
    ELSE IF Head(sorted).metrics[metric] >= t.metrics[metric]
         THEN <<Head(sorted)>> \o InsertDesc(Tail(sorted), t, metric)
         ELSE <<t>> \o sorted

RECURSIVE SortInto(_, _, _)
SortInto(sorted, rest, metric) ==
    IF rest = <<>> THEN sorted
    ELSE SortInto(InsertDesc(sorted, Head(rest), metric), Tail(rest), metric)

\* variant of sortBy: the array is returned in the order it came in
sortBy_Unsorted(tweets, metric) == tweets

\* variant of sortBy: tweets of equal metric come out in reverse input order
sortBy_TiesReversed(tweets, metric) ==
    SortInto(<<>>, [i \in 1..Len(tweets) |-> tweets[Len(tweets) + 1 - i]], metric)

sortBy(tweets, metric) == SortInto(<<>>, tweets, metric)

\* variant of filterEngagement: a tweet that just reaches a threshold is dropped
filterEngagement_Strict(tweets, opts) ==
    SelectSeq(tweets, LAMBDA t :
        /\ ~(opts.minLikes # 0 /\ t.metrics.likes <= opts.minLikes)
        /\ ~(opts.minImpressions # 0 /\ t.metrics.impressions <= opts.minImpressions))

\* filterEngagement: a threshold that is absent or 0 is not applied
filterEngagement(tweets, opts) ==
    SelectSeq(tweets, LAMBDA t :
        /\ ~(opts.minLikes # 0 /\ t.metrics.likes < opts.minLikes)
        /\ ~(opts.minImpressions # 0 /\ t.metrics.impressions < opts.minImpressions))

RECURSIVE DedupeFrom(_, _)
DedupeFrom(tweets, seen) ==
    IF tweets = <<>> THEN <<>>
    ELSE IF Head(tweets).id \in seen THEN DedupeFrom(Tail(tweets), seen)
         ELSE <<Head(tweets)>> \o DedupeFrom(Tail(tweets), seen \cup {Head(tweets).id})

\* variant of dedupe: nothing is filtered out
dedupe_All(tweets) == tweets

\* variant of dedupe: the last tweet of each id is kept
dedupe_KeepsLast(tweets) ==
    LET last == {i \in 1..Len(tweets) :
                    \A j \in (i + 1)..Len(tweets) : tweets[j].id # tweets[i].id}
    IN [k \in 1..Cardinality(last) |->
           tweets[CHOOSE i \in last : Cardinality({j \in last : j <= i}) = k]]

dedupe(tweets) == DedupeFrom(tweets, {})

\* ---------------------------------------------------------------------------
\* Tool invocations (CallToolRequestSchema handler)
\* ---------------------------------------------------------------------------

\* Arguments of a tools/call request.  An absent string argument is Null, an
\* absent number is 0 and an absent sort is "": the handler tests all of them
\* by truthiness, which does not tell these apart.
SetupArgs == {[bearer_token |-> t] : t \in Tokens}

SearchArgs ==
    {[query |-> <<"q">>, sort |-> "likes", pages |-> 2, limit |-> 2, min_likes |-> 500]}

ProfileArgs == {[username |-> <<"u">>, count |-> 5]}

IdArgs == {[tweet_id |-> <<"3">>]}

ArgsOf(name) ==
    CASE name = "setup_session" -> SetupArgs
      [] name = "search_x"      -> SearchArgs
      [] name = "get_profile"   -> ProfileArgs
      [] OTHER                  -> IdArgs

\* no tweets yet, no user yet
NoUser == <<>>

\* variant of NewCall: the handler reads the token and the session id of the
\* connection opened last, not those of its own closure
NewCall_LatestConn(c, name, args) ==
    LET latest == CHOOSE t \in DOMAIN sessions : \A u \in DOMAIN sessions : u <= t
    IN [conn        |-> c,
        name        |-> name,
        args        |-> args,
        bearerToken |-> sessions[latest].bearerToken,
        dbSessionId |-> sessions[latest].dbSessionId,
        pc          |-> "start",
        page        |-> 0,
        pages       |-> 0,
        query       |-> <<>>,
        maxResults  |-> 0,
        sortOrder   |-> "",
        nextToken   |-> Null,
        startTime   |-> NoTime,
        allTweets   |-> <<>>,
        user        |-> NoUser,
        requests    |-> <<>>,
        raw         |-> NoResponse,
        slept       |-> 0,
        result      |-> ErrorResultN("", 0),
        isError     |-> FALSE]

\* a tool invocation that has just entered the handler
NewCall(c, name, args) ==
    [conn        |-> c,
     name        |-> name,
     args        |-> args,
     bearerToken |-> sessions[c].bearerToken,
     dbSessionId |-> sessions[c].dbSessionId,
     pc          |-> "start",
     page        |-> 0,
     pages       |-> 0,
     query       |-> <<>>,
     maxResults  |-> 0,
     sortOrder   |-> "",
     nextToken   |-> Null,
     startTime   |-> NoTime,
     allTweets   |-> <<>>,
     user        |-> NoUser,
     requests    |-> <<>>,
     raw         |-> NoResponse,
     slept       |-> 0,
     result      |-> ErrorResultN("", 0),
     isError     |-> FALSE]

\* the handler has its result: the envelope is returned
Return(call, result, isError) ==
    [call EXCEPT !.pc = "done", !.result = result, !.isError = isError]

\* variant of Throw: the catch block does not set isError
Throw_NotFlagged(call, err) == Return(call, err, FALSE)

\* catch (err) { result = { error: ... }; isError = true }
Throw(call, err) == Return(call, err, TRUE)

\* { content: [{ type: "text", text: JSON.stringify(result) }], isError }
Envelope(call) == [content |-> call.result, isError |-> call.isError]

\* variant of LogData: the session id is not passed on
LogData_NoSession(call) ==
    [toolName       |-> call.name,
     request        |-> [tool |-> call.name, arguments |-> call.args],
     response       |-> call.result,
     userIdentifier |-> Null]

\* the argument of logInteraction for a finished invocation
LogData(call) ==
    [toolName       |-> call.name,
     request        |-> [tool |-> call.name, arguments |-> call.args],
     response       |-> call.result,
     userIdentifier |-> call.dbSessionId]

\* variant of SearchRequest: the continuation token is left out of the URL
SearchRequest_NoToken(call, paginationToken) ==
    [bearer |-> call.bearerToken, endpoint |-> "tweets/search/recent",
     query |-> call.query, max_results |-> call.maxResults,
     sort_order |-> call.sortOrder, start_time |-> call.startTime,
     pagination_token |-> Null]

\* the request of one page of api.search
SearchRequest(call, paginationToken) ==
    [bearer |-> call.bearerToken, endpoint |-> "tweets/search/recent",
     query |-> call.query, max_results |-> call.maxResults,
     sort_order |-> call.sortOrder, start_time |-> call.startTime,
     pagination_token |-> paginationToken]

\* variant of ObjectRequest: the request is signed with the token that was
\* registered last, whoever makes the call
ObjectRequest_LastRegistered(call, endpoint, id) ==
    [bearer |-> mcp_sessions[Len(mcp_sessions)].bearer_token, endpoint |-> endpoint,
     query |-> id, max_results |-> 0,
     sort_order |-> "", pagination_token |-> Null]

ObjectRequest(call, endpoint, id) ==
    [bearer |-> call.bearerToken, endpoint |-> endpoint,
     query |-> id, max_results |-> 0,
     sort_order |-> "", pagination_token |-> Null]

\* search_x after api.search returned: filter, sort, dedupe, truncate
SearchXResult(call) ==
    LET a  == call.args
        t1 == IF a.min_likes # 0
              THEN filterEngagement(call.allTweets,
                                    [minLikes |-> a.min_likes, minImpressions |-> 0])
              ELSE call.allTweets
        t2 == IF a.sort # "" /\ a.sort # "recent" THEN sortBy(t1, a.sort) ELSE t1
        t3 == Slice0(dedupe(t2), IF a.limit # 0 THEN a.limit ELSE 15)
    IN [tweets |-> t3, count |-> Len(t3)]

\* what the invocation does once api.search has returned call.allTweets
AfterSearch(call) ==
    CASE call.name = "search_x" ->
            Return(call, SearchXResult(call), FALSE)
      [] call.name = "get_thread" ->
            [call EXCEPT !.pc = "root",
                         !.requests = Append(@, ObjectRequest(call, "tweets", call.args.tweet_id))]
      [] OTHER ->
            Return(call, [user |-> call.user, tweets |-> call.allTweets], FALSE)

\* api.search up to its first await
BeginSearch(call, query, pagesOpt, maxResultsOpt, sortOrder, since) ==
    LET c1 == [call EXCEPT !.query = query,
                           !.startTime = IF Truthy(since) /\ ~parseSinceThrows(since, DateNow)
                                         THEN parseSince(since, DateNow)
                                         ELSE NoTime,
                           !.pages = IF pagesOpt # 0 THEN pagesOpt ELSE 1,
                           !.maxResults = Max(Min(IF maxResultsOpt # 0 THEN maxResultsOpt ELSE 100, 100), 10),
                           !.sortOrder = sortOrder,
                           !.page = 0,
                           !.nextToken = Null,
                           !.allTweets = <<>>]
    IN IF Truthy(since) /\ parseSinceThrows(since, DateNow)
       THEN Throw(call, ErrorResultN(ErrInvalidTime, 0))
       ELSE IF 0 < c1.pages
       THEN [c1 EXCEPT !.pc = "search", !.requests = Append(@, SearchRequest(c1, Null))]
       ELSE AfterSearch(c1)

\* variant of OnSearchResponse: when a later page fails, the search returns
\* the tweets of the pages it has
OnSearchResponse_KeepsPages(call, res) ==
    IF apiGetThrows(res)
    THEN IF call.allTweets # <<>> THEN AfterSearch(call) ELSE Throw(call, apiGetError(res))
    ELSE LET c1 == [call EXCEPT !.allTweets = @ \o parseTweets(res.data),
                                !.nextToken = res.next_token]
         IN IF ~Truthy(c1.nextToken) THEN AfterSearch(c1)
            ELSE LET c2 == [c1 EXCEPT !.slept = IF c1.page < c1.pages - 1
                                                THEN @ + RATE_DELAY_MS ELSE @,
                                      !.page = @ + 1]
                 IN IF c2.page < c2.pages
                    THEN [c2 EXCEPT !.requests = Append(@, SearchRequest(c2, c2.nextToken))]
                    ELSE AfterSearch(c2)

\* variant of OnSearchResponse: search_x stops paging once `limit` tweets
\* were collected
OnSearchResponse_StopsAtLimit(call, res) ==
    IF apiGetThrows(res) THEN Throw(call, apiGetError(res))
    ELSE LET c1 == [call EXCEPT !.allTweets = @ \o parseTweets(res.data),
                                !.nextToken = res.next_token]
         IN IF ~Truthy(c1.nextToken) THEN AfterSearch(c1)
            ELSE IF call.name = "search_x" /\ call.args.limit > 0
                    /\ Len(c1.allTweets) >= call.args.limit
            THEN AfterSearch(c1)
            ELSE LET c2 == [c1 EXCEPT !.slept = IF c1.page < c1.pages - 1
                                                THEN @ + RATE_DELAY_MS ELSE @,
                                      !.page = @ + 1]
                 IN IF c2.page < c2.pages
                    THEN [c2 EXCEPT !.requests = Append(@, SearchRequest(c2, c2.nextToken))]
                    ELSE AfterSearch(c2)

\* api.search resumed by the response to the request of page call.page
OnSearchResponse(call, res) ==
    IF apiGetThrows(res) THEN Throw(call, apiGetError(res))
    ELSE LET c1 == [call EXCEPT !.allTweets = @ \o parseTweets(res.data),
                                !.nextToken = res.next_token]
         IN IF ~Truthy(c1.nextToken) THEN AfterSearch(c1)
            ELSE LET c2 == [c1 EXCEPT !.slept = IF c1.page < c1.pages - 1
                                                THEN @ + RATE_DELAY_MS ELSE @,
                                      !.page = @ + 1]
                 IN IF c2.page < c2.pages
                    THEN [c2 EXCEPT !.requests = Append(@, SearchRequest(c2, c2.nextToken))]
                    ELSE AfterSearch(c2)

\* variant of OnRootResponse: a failure of the root-tweet request is thrown
OnRootResponse_Throws(call, res) ==
    IF apiGetThrows(res) THEN Throw(call, apiGetError(res))
    ELSE LET tweets == IF res.data # <<>>
                       THEN parseTweets(res.data) \o call.allTweets
                       ELSE call.allTweets
         IN Return(call, [tweets |-> tweets, count |-> Len(tweets)], FALSE)

\* api.thread resumed by the response to the root-tweet request
OnRootResponse(call, res) ==
    LET tweets == IF ~apiGetThrows(res) /\ res.data # <<>>
                  THEN parseTweets(res.data) \o call.allTweets
                  ELSE call.allTweets
    IN Return(call, [tweets |-> tweets, count |-> Len(tweets)], FALSE)

\* variant of OnUserResponse: the search is made whether or not the response
\* holds a user
OnUserResponse_NoTest(call, res) ==
    IF apiGetThrows(res) THEN Throw(call, apiGetError(res))
    ELSE LET c1 == [call EXCEPT !.user = res.data, !.slept = @ + RATE_DELAY_MS]
         IN BeginSearch(c1, <<"from:">> \o call.args.username \o <<" -is:retweet -is:reply">>,
                        0, Min(IF call.args.count # 0 THEN call.args.count ELSE 20, 100),
                        "recency", Null)

\* api.profile resumed by the response to the user request
OnUserResponse(call, res) ==
    IF apiGetThrows(res) THEN Throw(call, apiGetError(res))
    ELSE IF res.data = <<>> THEN Throw(call, ErrorResultN(ErrUserNotFound, 0))
    ELSE LET c1 == [call EXCEPT !.user = res.data, !.slept = @ + RATE_DELAY_MS]
         IN BeginSearch(c1, <<"from:">> \o call.args.username \o <<" -is:retweet -is:reply">>,
                        0, Min(IF call.args.count # 0 THEN call.args.count ELSE 20, 100),
                        "recency", Null)

\* the null that getTweet returns for a response without data; a tweet is
\* held as the one element of a sequence
NullTweet == <<>>

\* variant of OnTweetResponse: a response without data is an error
OnTweetResponse_NotFound(call, res) ==
    IF apiGetThrows(res) THEN Throw(call, apiGetError(res))
    ELSE IF res.data = <<>> THEN Throw(call, ErrorResultN(ErrUserNotFound, 0))
    ELSE Return(call, [tweet |-> parseTweets(res.data)], FALSE)

\* api.getTweet resumed by the response
OnTweetResponse(call, res) ==
    IF apiGetThrows(res) THEN Throw(call, apiGetError(res))
    ELSE Return(call, [tweet |-> IF res.data # <<>> THEN parseTweets(res.data)
                                 ELSE NullTweet], FALSE)

\* the switch over the X tools, up to the first await
\* args["since"]: Null when the argument is absent
SinceOf(args) == IF "since" \in DOMAIN args THEN args.since ELSE Null

BeginXTool(call) ==
    CASE call.name = "search_x" ->
            BeginSearch(call, call.args.query, call.args.pages, 0,
                        IF call.args.sort = "recent" THEN "recency" ELSE "relevancy",
                        SinceOf(call.args))
      [] call.name = "get_thread" ->
            BeginSearch(call, <<"conversation_id:">> \o call.args.tweet_id, 2, 0, "recency",
                        Null)
      [] call.name = "get_profile" ->
            [call EXCEPT !.pc = "user",
                         !.requests = Append(@, ObjectRequest(call, "users/by/username", call.args.username))]
      [] call.name = "get_tweet" ->
            [call EXCEPT !.pc = "tweet",
                         !.requests = Append(@, ObjectRequest(call, "tweets", call.args.tweet_id))]
      [] OTHER -> Throw(call, ErrorResultN(ErrUnknownTool, 0))

\* ---------------------------------------------------------------------------
\* State machine
\* ---------------------------------------------------------------------------

NoSessions == [t \in {} |-> createMcpServer(Null, Null)]

NoCalls == [i \in {} |-> Return(NewCall(0, "", [tweet_id |-> Null]), ErrorResultN("", 0), FALSE)]

\* one call of the session store by a request handler, and whether the
\* query succeeded
StoreCall(op, ok) == [op |-> op, ok |-> ok]

\* the HTTP request the server handled in the last step (NoRequest when the
\* last step was not the handling of a request): the parameters of the
\* request, the status and error of the response, the connection it was
\* served on (0: none), the session-store calls its handler made, in order,
\* and the tools of a tools/list response
Exchange(sid, tok, body, status, error, conn, store, tools) ==
    [session_id |-> sid, x_bearer_token |-> tok, body |-> body, status |-> status,
     error |-> error, conn |-> conn, store |-> store, tools |-> tools]

NoRequest == Exchange(Null, Null, "", 0, "", 0, <<>>, <<>>)

ErrSessionNotFound == "Session not found or expired."
ErrNoTransport == "Session not found or expired"

\* The store outlives the server process: at boot the table mcp_sessions is
\* empty, or holds a session that an earlier run of the server registered.
StoredAtBoot ==
    {<<>>,
     <<[session_id |-> Uuid(1), bearer_token |-> <<"b">>,
        created_at |-> 0, last_used_at |-> 0]>>}

Init ==
    /\ \E d \in Deployments : version = d.version /\ PUBLIC_URL = d.PUBLIC_URL
    /\ mcp_sessions \in StoredAtBoot
    /\ mcp_interactions = <<>>
    /\ sessions = NoSessions
    /\ nextConn = 0
    /\ nCalls = 0
    /\ calls = NoCalls
    /\ returned = <<>>
    /\ http = NoRequest

\* values of the session_id query parameter: absent, not a UUID, the
\* identifiers the store has handed out and one it has not
SessionIdParams ==
    {Null, NotAUuid} \cup {Uuid(n) : n \in 1..(Len(mcp_sessions) + 1)}

\* values of the x_bearer_token query parameter
BearerParams == {Null, <<"a">>}

\* sessions.set(token, {server, transport}) / transports.set(token, transport)
Register(token, server) ==
    [t \in DOMAIN sessions \cup {token} |->
        IF t = token THEN server ELSE sessions[t]]

\* variant of Unregister: closing one connection clears the table
Unregister_All(token) == NoSessions

\* sessions.delete(token) / transports.delete(token)
Unregister(token) == [t \in DOMAIN sessions \ {token} |-> sessions[t]]

\* variant of Continue: the tweets collected so far are kept in one array
\* that all invocations share
Continue_SharedTweets(i, after, logOk) ==
    IF after.pc = "done"
    THEN /\ calls' = [j \in DOMAIN calls \ {i} |-> calls[j]]
         /\ returned' = <<[id |-> i, call |-> after, envelope |-> Envelope(after),
                           logged |-> <<LogData(after)>>]>>
         /\ mcp_interactions' = IF logOk THEN <<LogRow(LogData(after))>> ELSE <<>>
    ELSE /\ calls' = [j \in DOMAIN calls \cup {i} |->
                         IF j = i THEN after
                         ELSE [calls[j] EXCEPT !.allTweets = after.allTweets]]
         /\ returned' = <<>>
         /\ mcp_interactions' = <<>>

\* variant of Continue: logInteraction is awaited inside the try block, so that
\* a failed INSERT replaces the result by an error
Continue_AwaitsLog(i, after, logOk) ==
    IF after.pc = "done"
    THEN LET final == IF logOk THEN after ELSE Throw(after, ErrorResultN(ErrStore, 0))
         IN /\ calls' = [j \in DOMAIN calls \ {i} |-> calls[j]]
            /\ returned' = <<[id |-> i, call |-> final, envelope |-> Envelope(final),
                              logged |-> <<LogData(after)>>]>>
            /\ mcp_interactions' = IF logOk THEN <<LogRow(LogData(after))>> ELSE <<>>
    ELSE /\ calls' = [j \in DOMAIN calls \cup {i} |-> IF j = i THEN after ELSE calls[j]]
         /\ returned' = <<>>
         /\ mcp_interactions' = <<>>

\* invocation i has reached the state `after`: if its handler has its result,
\* logInteraction is called (the INSERT succeeds or fails, which the handler
\* does not wait for) and the envelope is returned
Continue(i, after, logOk) ==
    IF after.pc = "done"
    THEN /\ calls' = [j \in DOMAIN calls \ {i} |-> calls[j]]
         /\ returned' = <<[id |-> i, call |-> after, envelope |-> Envelope(after),
                           logged |-> <<LogData(after)>>]>>
         /\ mcp_interactions' = IF logOk THEN <<LogRow(LogData(after))>> ELSE <<>>
    ELSE /\ calls' = [j \in DOMAIN calls \cup {i} |-> IF j = i THEN after ELSE calls[j]]
         /\ returned' = <<>>
         /\ mcp_interactions' = <<>>

\* variant of ValidToken: the argument is not trimmed before the test
ValidToken_NoTrim(token) == Truthy(token)

\* setup_session accepts its argument: !token || !token.trim() is false
ValidToken(token) == Truthy(token) /\ Truthy(Trim(token))

\* variant of HandleCall: the data tools do not test the bearer token
HandleCall_NoTokenTest(call, dbOk) ==
    LET token == call.args.bearer_token
        made  == createSession(Trim(token), dbOk)
    IN IF call.name = "setup_session"
       THEN IF ~ValidToken(token) THEN Throw(call, ErrorResultN(ErrRequired, 0))
            ELSE IF made.rejected THEN Throw(call, ErrorResultN(ErrStore, 0))
            ELSE Return(call, SetupResult(made.value), FALSE)
       ELSE BeginXTool(call)

\* the body of the CallTool handler up to its first await of the X API
HandleCall(call, dbOk) ==
    LET token == call.args.bearer_token
        made  == createSession(Trim(token), dbOk)
    IN IF call.name = "setup_session"
       THEN IF ~ValidToken(token) THEN Throw(call, ErrorResultN(ErrRequired, 0))
            ELSE IF made.rejected THEN Throw(call, ErrorResultN(ErrStore, 0))
            ELSE Return(call, SetupResult(made.value), FALSE)
       ELSE IF ~Truthy(call.bearerToken) THEN Throw(call, ErrorResultN(ErrNoToken, 0))
       ELSE BeginXTool(call)

\* variant of CallTool: an invocation that fails closes its connection
CallTool_ClosesOnError(c, sid, name, args, dbOk, logOk) ==
    LET call    == NewCall(c, name, args)
        creates == name = "setup_session" /\ ValidToken(args.bearer_token)
    IN /\ nCalls' = nCalls + 1
       /\ Continue(nCalls + 1, HandleCall(call, dbOk), logOk)
       /\ mcp_sessions' = IF creates THEN AfterCreate(Trim(args.bearer_token), dbOk)
                          ELSE mcp_sessions
       /\ http' = Exchange(sid, Null, "tools/call", 200, "", c,
                           IF creates THEN <<StoreCall("createSession", dbOk)>> ELSE <<>>,
                           <<>>)
       /\ sessions' = IF HandleCall(call, dbOk).isError THEN Unregister(c) ELSE sessions
       /\ UNCHANGED <<version, PUBLIC_URL, nextConn>>

\* variant of CallTool: a successful setup_session binds the new session to
\* the connection it was called on
CallTool_SetupRebinds(c, sid, name, args, dbOk, logOk) ==
    LET call    == NewCall(c, name, args)
        creates == name = "setup_session" /\ ValidToken(args.bearer_token)
    IN /\ nCalls' = nCalls + 1
       /\ Continue(nCalls + 1, HandleCall(call, dbOk), logOk)
       /\ mcp_sessions' = IF creates THEN AfterCreate(Trim(args.bearer_token), dbOk)
                          ELSE mcp_sessions
       /\ http' = Exchange(sid, Null, "tools/call", 200, "", c,
                           IF creates THEN <<StoreCall("createSession", dbOk)>> ELSE <<>>,
                           <<>>)
       /\ sessions' = IF creates /\ dbOk
                      THEN [sessions EXCEPT ![c] =
                               createMcpServer(Trim(args.bearer_token),
                                               createSession(Trim(args.bearer_token), dbOk).value)]
                      ELSE sessions
       /\ UNCHANGED <<version, PUBLIC_URL, nextConn>>

\* --- the dispatcher of connection c handles a tools/call request, which came
\* --- in an HTTP request with query parameter session_id = sid ----------------
CallTool(c, sid, name, args, dbOk, logOk) ==
    LET call    == NewCall(c, name, args)
        creates == name = "setup_session" /\ ValidToken(args.bearer_token)
    IN /\ nCalls' = nCalls + 1
       /\ Continue(nCalls + 1, HandleCall(call, dbOk), logOk)
       /\ mcp_sessions' = IF creates THEN AfterCreate(Trim(args.bearer_token), dbOk)
                          ELSE mcp_sessions
       /\ http' = Exchange(sid, Null, "tools/call", 200, "", c,
                           IF creates THEN <<StoreCall("createSession", dbOk)>> ELSE <<>>,
                           <<>>)
       /\ UNCHANGED <<version, PUBLIC_URL, sessions, nextConn>>

\* --- the dispatcher of connection c handles a tools/list request ------------
ListTools(c) ==
    /\ http' = Exchange(Null, Null, "tools/list", 200, "", c, <<>>, sessions[c].tools)
    /\ returned' = <<>>
    /\ mcp_interactions' = <<>>
    /\ UNCHANGED <<version, PUBLIC_URL, mcp_sessions, sessions, nextConn, nCalls, calls>>

\* the responses the X API can give to the outstanding request of a call
ResponsesFor(call) == IF call.pc = "search" THEN SearchResponses ELSE ObjectResponses

\* variant of Resume: a request that was answered with 429 is sent again, once
Resume_RetriesOnce(waiting, res) ==
    LET call == [waiting EXCEPT !.raw = res]
        last == call.requests[Len(call.requests)]
    IN IF res.status = 429
          /\ (Len(call.requests) < 2 \/ call.requests[Len(call.requests) - 1] # last)
       THEN [call EXCEPT !.requests = Append(@, last)]
       ELSE CASE call.pc = "search" -> OnSearchResponse(call, res)
              [] call.pc = "root"   -> OnRootResponse(call, res)
              [] call.pc = "user"   -> OnUserResponse(call, res)
              [] OTHER              -> OnTweetResponse(call, res)

\* the invocation `waiting` is resumed by the response res to its request
Resume(waiting, res) ==
    LET call == [waiting EXCEPT !.raw = res]
    IN CASE call.pc = "search" -> OnSearchResponse(call, res)
         [] call.pc = "root"   -> OnRootResponse(call, res)
         [] call.pc = "user"   -> OnUserResponse(call, res)
         [] OTHER              -> OnTweetResponse(call, res)

\* --- the X API answers the outstanding request of invocation i --------------
UpstreamRespond(i, res, logOk) ==
    /\ i \in DOMAIN calls
    /\ Continue(i, Resume(calls[i], res), logOk)
    /\ http' = NoRequest
    /\ UNCHANGED <<version, PUBLIC_URL, mcp_sessions, sessions, nextConn, nCalls>>

\* what a step that returns no tool result and writes no log row leaves behind
NoReturn ==
    /\ returned' = <<>>
    /\ mcp_interactions' = <<>>

\* the outcome of resolving the bearer token of a new connection: the
\* connection is refused, or a dispatcher is made for bearerToken and
\* sessionId; store lists the session-store calls made, create is the token
\* createSession was called with (Null: not called) and touch is whether
\* touchSession was called
Resolution(refused, bearerToken, sessionId, store, create, touch) ==
    [refused |-> refused, bearerToken |-> bearerToken, sessionId |-> sessionId,
     store |-> store, create |-> create, touch |-> touch]

\* variant of ResolveMcp: a session_id that resolves to no token opens an
\* anonymous connection
ResolveMcp_AnonymousFallback(sid, tok, dbOk, touchOk) ==
    LET found       == getSessionToken(sid, dbOk)
        bearerToken == CatchNull(found)
    IN IF ~Truthy(sid)
       THEN Resolution(FALSE, Null, sid, <<>>, Null, FALSE)
       ELSE IF ~Truthy(bearerToken)
       THEN Resolution(FALSE, Null, sid,
                       <<StoreCall("getSessionToken", ~found.rejected)>>, Null, FALSE)
       ELSE Resolution(FALSE, bearerToken, sid,
                       <<StoreCall("getSessionToken", TRUE),
                         StoreCall("touchSession", touchOk)>>, Null, TRUE)

\* version 1.2.0, app.all("/mcp"): the bearer token is resolved from the store
\* by session_id; the x_bearer_token parameter tok is not read.
\* touchSession is not awaited: its UPDATE succeeds (touchOk) or fails without
\* the handler noticing.
ResolveMcp(sid, tok, dbOk, touchOk) ==
    LET found       == getSessionToken(sid, dbOk)
        bearerToken == CatchNull(found)
    IN IF ~Truthy(sid)
       THEN Resolution(FALSE, Null, sid, <<>>, Null, FALSE)
       ELSE IF ~Truthy(bearerToken)
       THEN Resolution(TRUE, Null, sid,
                       <<StoreCall("getSessionToken", ~found.rejected)>>, Null, FALSE)
       ELSE Resolution(FALSE, bearerToken, sid,
                       <<StoreCall("getSessionToken", TRUE),
                         StoreCall("touchSession", touchOk)>>, Null, TRUE)

\* variant of ResolveSse: x_bearer_token is tested before session_id
ResolveSse_TokenFirst(sid, tok, dbOk, touchOk) ==
    LET found  == getSessionToken(sid, dbOk)
        looked == CatchNull(found)
        made   == createSession(tok, dbOk)
    IN IF Truthy(tok)
       THEN Resolution(FALSE, tok, CatchNull(made),
                       <<StoreCall("createSession", dbOk)>>, tok, FALSE)
       ELSE IF Truthy(sid)
       THEN IF ~Truthy(looked)
            THEN Resolution(TRUE, Null, Null,
                            <<StoreCall("getSessionToken", ~found.rejected)>>, Null, FALSE)
            ELSE Resolution(FALSE, looked, sid,
                            <<StoreCall("getSessionToken", TRUE),
                              StoreCall("touchSession", touchOk)>>, Null, TRUE)
       ELSE Resolution(FALSE, Null, Null, <<>>, Null, FALSE)

\* version 1.1.0, app.get("/sse"): session_id is looked up; without it,
\* x_bearer_token is used as it is and a session is created for it, and a
\* failure of that createSession is caught
ResolveSse(sid, tok, dbOk, touchOk) ==
    LET found  == getSessionToken(sid, dbOk)
        looked == CatchNull(found)
        made   == createSession(tok, dbOk)
    IN IF Truthy(sid)
       THEN IF ~Truthy(looked)
            THEN Resolution(TRUE, Null, Null,
                            <<StoreCall("getSessionToken", ~found.rejected)>>, Null, FALSE)
            ELSE Resolution(FALSE, looked, sid,
                            <<StoreCall("getSessionToken", TRUE),
                              StoreCall("touchSession", touchOk)>>, Null, TRUE)
       ELSE IF Truthy(tok)
       THEN Resolution(FALSE, tok, CatchNull(made),
                       <<StoreCall("createSession", dbOk)>>, tok, FALSE)
       ELSE Resolution(FALSE, Null, Null, <<>>, Null, FALSE)

\* --- a request opens a new connection: the resolution r of its parameters
\* --- is applied, and on success the dispatcher is registered under a new
\* --- transport token -------------------------------------------------------
Connect(sid, tok, r, dbOk, touchOk) ==
    LET token == nextConn + 1
    IN /\ nextConn < MaxConns
       /\ mcp_sessions' = IF r.create # Null THEN AfterCreate(r.create, dbOk)
                          ELSE IF r.touch /\ touchOk THEN touchSession(sid)
                          ELSE mcp_sessions
       /\ IF r.refused
          THEN /\ http' = Exchange(sid, tok, "initialize", 401, ErrSessionNotFound, 0,
                                   r.store, <<>>)
               /\ UNCHANGED <<sessions, nextConn>>
          ELSE /\ sessions' = Register(token, createMcpServer(r.bearerToken, r.sessionId))
               /\ nextConn' = token
               /\ http' = Exchange(sid, tok, "initialize", 200, "", token, r.store, <<>>)
       /\ NoReturn
       /\ UNCHANGED <<version, PUBLIC_URL, nCalls, calls>>

\* --- version 1.2.0: app.all("/mcp") ------------------------------------------

\* the request carries the Mcp-Session-Id of an active connection and is a
\* tools/call: transport.handleRequest hands it to that connection's dispatcher.
\* The clients send a tools/call when no other invocation is in progress.
McpCall(m, sid, name, args, dbOk, logOk) ==
    /\ version = "1.2.0"
    /\ m \in DOMAIN sessions
    /\ nCalls < MaxCalls
    /\ DOMAIN calls = {}
    /\ CallTool(m, sid, name, args, dbOk, logOk)

\* ... and is a tools/list
McpList(m) ==
    /\ version = "1.2.0"
    /\ m \in DOMAIN sessions
    /\ ListTools(m)

\* ... and is a DELETE: the transport closes and onclose drops the entry
McpDelete(m) ==
    /\ version = "1.2.0"
    /\ m \in DOMAIN sessions
    /\ sessions' = Unregister(m)
    /\ http' = Exchange(Null, Null, "DELETE", 200, "", m, <<>>, <<>>)
    /\ NoReturn
    /\ UNCHANGED <<version, PUBLIC_URL, mcp_sessions, nextConn, nCalls, calls>>

\* no active connection for the Mcp-Session-Id header m (0: no header): a new
\* connection, whose first request is the initialize request
McpConnect(m, sid, tok, dbOk, touchOk) ==
    /\ version = "1.2.0"
    /\ ~(m # 0 /\ m \in DOMAIN sessions)
    /\ Connect(sid, tok, ResolveMcp(sid, tok, dbOk, touchOk), dbOk, touchOk)

\* --- version 1.1.0: app.get("/sse"), app.post("/messages") -------------------

SseConnect(sid, tok, dbOk, touchOk) ==
    /\ version = "1.1.0"
    /\ Connect(sid, tok, ResolveSse(sid, tok, dbOk, touchOk), dbOk, touchOk)

\* POST /messages?sessionId=m with a tools/call body
SseCall(m, name, args, dbOk, logOk) ==
    /\ version = "1.1.0"
    /\ m \in DOMAIN sessions
    /\ nCalls < MaxCalls
    /\ DOMAIN calls = {}
    /\ CallTool(m, Null, name, args, dbOk, logOk)

\* POST /messages?sessionId=m with a tools/list body
SseList(m) ==
    /\ version = "1.1.0"
    /\ m \in DOMAIN sessions
    /\ ListTools(m)

\* POST /messages for a transport that is not in the table
SseUnknown(m) ==
    /\ version = "1.1.0"
    /\ m \in 0..nextConn
    /\ m \notin DOMAIN sessions
    /\ http' = Exchange(Null, Null, "tools/call", 404, ErrNoTransport, 0, <<>>, <<>>)
    /\ NoReturn
    /\ UNCHANGED <<version, PUBLIC_URL, mcp_sessions, sessions, nextConn, nCalls, calls>>

\* res.on("close"): the client went away
SseClose(m) ==
    /\ version = "1.1.0"
    /\ m \in DOMAIN sessions
    /\ sessions' = Unregister(m)
    /\ http' = NoRequest
    /\ NoReturn
    /\ UNCHANGED <<version, PUBLIC_URL, mcp_sessions, nextConn, nCalls, calls>>

\* the body of the /health response that matters here: activeSessions
HealthReport(size) ==
    ("activeSessions" :> size) @@ Exchange(Null, Null, "health", 200, "", 0, <<>>, <<>>)

\* --- GET /health (both versions): reports sessions.size / transports.size ---
Health ==
    /\ http' = HealthReport(Cardinality(DOMAIN sessions))
    /\ NoReturn
    /\ UNCHANGED <<version, PUBLIC_URL, mcp_sessions, sessions, nextConn, nCalls, calls>>

\* only setup_session calls the session store: for the other tools the
\* outcome of a store call is not an input
StoreOutcomes(name) == IF name = "setup_session" THEN BOOLEAN ELSE {TRUE}

\* the Mcp-Session-Id headers that name no active connection: none (0), or
\* the token of a connection that was closed
StaleHeaders == (0..nextConn) \ DOMAIN sessions

Next ==
    \/ \E m \in DOMAIN sessions, sid \in SessionIdParams, name \in ToolNames,
          logOk \in BOOLEAN :
          \E args \in ArgsOf(name), dbOk \in StoreOutcomes(name) :
              McpCall(m, sid, name, args, dbOk, logOk)
    \/ \E m \in DOMAIN sessions : McpList(m)
    \/ \E m \in DOMAIN sessions : McpDelete(m)
    \/ \E m \in StaleHeaders, sid \in SessionIdParams, tok \in BearerParams,
          dbOk \in BOOLEAN, touchOk \in BOOLEAN : McpConnect(m, sid, tok, dbOk, touchOk)
    \/ \E sid \in SessionIdParams, tok \in BearerParams,
          dbOk \in BOOLEAN, touchOk \in BOOLEAN : SseConnect(sid, tok, dbOk, touchOk)
    \/ \E m \in DOMAIN sessions, name \in ToolNames, logOk \in BOOLEAN :
          \E args \in ArgsOf(name), dbOk \in StoreOutcomes(name) :
              SseCall(m, name, args, dbOk, logOk)
    \/ \E m \in DOMAIN sessions : SseList(m)
    \/ \E m \in 0..nextConn : SseUnknown(m)
    \/ \E m \in DOMAIN sessions : SseClose(m)
    \/ \E i \in DOMAIN calls, logOk \in BOOLEAN :
          \E res \in ResponsesFor(calls[i]) : UpstreamRespond(i, res, logOk)
    \/ Health

Spec == Init /\ [][Next]_vars

\* ---------------------------------------------------------------------------
\* One client on one connection: the data tools over a wider range of
\* arguments and upstream responses
\* ---------------------------------------------------------------------------

\* a page of sixteen different tweets
BigPage == [i \in 1..16 |-> RawTweet(i + 3, 50 * i, 20 - i, i % 3)]

\* a page of seven different tweets
MidPage == SubSeq(BigPage, 1, 7)

RichPages == {<<RawA, RawB, RawC>>, <<RawA, RawC, RawB, RawC>>, MidPage, BigPage}

\* x-rate-limit-reset headers of a 429 response handled at 100.5 s: absent,
\* 30 s ahead, the current second, 10 s in the past
ResetHeaders == {NoHeader, <<130>>, <<100>>, <<90>>}

\* arguments of search_x: every value of pages with the other options fixed,
\* and every combination of sort, limit and min_likes over two pages
RichSearchArgs ==
    {[query |-> <<"q">>, sort |-> "likes", pages |-> p, limit |-> 0, min_likes |-> 0] :
        p \in {-1, 0, 1, 2, 6}}
    \cup {[query |-> <<"q">>, sort |-> srt, pages |-> 2, limit |-> l, min_likes |-> m] :
            srt \in {"", "likes", "impressions", "retweets", "recent"},
            l \in {-1, 0, 2}, m \in {0, 500}}

\* arguments of get_profile: count omitted, below the smallest page size of
\* the X API, and above it
RichProfileArgs == {[username |-> <<"u">>, count |-> n] : n \in {0, 5, 50}}

RichArgsOf(name) ==
    CASE name = "search_x"    -> RichSearchArgs
      [] name = "get_profile" -> RichProfileArgs
      [] OTHER                -> ArgsOf(name)

\* responses to the outstanding request of a call: the first page of a search
\* and the single-object requests get every kind of response, later pages a
\* page of three tweets or a rate-limit response
RichResponsesFor(call) ==
    IF call.pc = "search" /\ call.page = 0
    THEN {Response(200, data, next, NoHeader, 100500) :
              data \in RichPages, next \in NextTokens}
         \cup {Response(429, <<>>, Null, reset, 100500) : reset \in ResetHeaders}
         \cup {Response(500, <<>>, Null, NoHeader, 100500)}
    ELSE IF call.pc = "search"
    THEN {Response(200, <<RawA, RawB, RawC>>, next, NoHeader, 100500) : next \in NextTokens}
         \cup {Response(429, <<>>, Null, <<130>>, 100500)}
    ELSE ObjectResponses
         \cup {Response(429, <<>>, Null, reset, 100500) : reset \in ResetHeaders}

\* version 1.2.0 after one request: a connection opened with the session_id of
\* the stored session, whose touchSession failed
InitSearch ==
    /\ version = "1.2.0"
    /\ PUBLIC_URL = <<"https://h">>
    /\ mcp_sessions = <<[session_id |-> Uuid(1), bearer_token |-> <<"b">>,
                         created_at |-> 0, last_used_at |-> 0]>>
    /\ mcp_interactions = <<>>
    /\ sessions = <<createMcpServer(<<"b">>, Uuid(1))>>
    /\ nextConn = 1
    /\ nCalls = 0
    /\ calls = NoCalls
    /\ returned = <<>>
    /\ http = Exchange(Uuid(1), Null, "initialize", 200, "", 1,
                       <<StoreCall("getSessionToken", TRUE),
                         StoreCall("touchSession", FALSE)>>, <<>>)

\* the client calls a data tool once its previous call has returned
DataCall(name, args, logOk) ==
    McpCall(1, Null, name, args, TRUE, logOk)

NextSearch ==
    \/ \E name \in {"search_x", "get_profile", "get_thread", "get_tweet"},
          logOk \in BOOLEAN :
          \E args \in RichArgsOf(name) : DataCall(name, args, logOk)
    \/ \E i \in DOMAIN calls, logOk \in BOOLEAN :
          \E res \in RichResponsesFor(calls[i]) : UpstreamRespond(i, res, logOk)

SearchSpec == InitSearch /\ [][NextSearch]_vars

\* ---------------------------------------------------------------------------
\* The post-processing of search_x (filterEngagement, sortBy, dedupe) over
\* every short page the X API can return
\* ---------------------------------------------------------------------------

\* tweet 1 as returned once more after it gathered likes
RawA2 == RawTweet(1, 600, 5, 7)

\* every data array of at most MaxLen tweets out of four, two of which have
\* the same id and several of which have equal metrics
AnyPages ==
    UNION {[1..n -> {RawA, RawA2, RawB, RawC}] : n \in 0..MaxLen}

\* search_x over one page with every choice of sort and min_likes
PipelineArgs ==
    {[query |-> <<"q">>, sort |-> srt, pages |-> 1, limit |-> 0, min_likes |-> m] :
        srt \in {"", "likes", "impressions", "retweets"}, m \in {0, 600}}

\* the client calls search_x
PipelineCall(args, logOk) ==
    McpCall(1, Null, "search_x", args, TRUE, logOk)

\* the X API answers with a single page
PipelineRespond(i, data, logOk) ==
    UpstreamRespond(i, Response(200, data, Null, NoHeader, 100500), logOk)

NextPipeline ==
    \/ \E args \in PipelineArgs, logOk \in BOOLEAN : PipelineCall(args, logOk)
    \/ \E i \in DOMAIN calls, data \in AnyPages, logOk \in BOOLEAN :
          PipelineRespond(i, data, logOk)

PipelineSpec == InitSearch /\ [][NextPipeline]_vars

\* ---------------------------------------------------------------------------
\* search_x with a since argument
\* ---------------------------------------------------------------------------

\* values of since: relative specs in minutes, hours and days, one that is
\* 100,100,000 days long, the empty string, words that are no date, a unit
\* in upper case, and an absolute timestamp
SinceSpecs ==
    {<<"1", "h">>, <<"7", "d">>, <<"9", "0", "m">>,
     <<"1", "0", "0", "1", "0", "0", "0", "0", "0", "d">>,
     <<>>, <<"b", "a", "n", "a", "n", "a">>, <<"T", "B", "D">>, <<"1", "H">>,
     IsoStamp}

SinceArgs ==
    {[query |-> <<"q">>, sort |-> "", pages |-> p, limit |-> 0, min_likes |-> 0,
      since |-> since] : p \in {1, 2}, since \in SinceSpecs}

\* the client calls search_x with a since argument
SinceCall(args, logOk) ==
    McpCall(1, Null, "search_x", args, TRUE, logOk)

NextSince ==
    \/ \E args \in SinceArgs, logOk \in BOOLEAN : SinceCall(args, logOk)
    \/ \E i \in DOMAIN calls, logOk \in BOOLEAN :
          \E res \in ResponsesFor(calls[i]) : UpstreamRespond(i, res, logOk)

SinceSpec == InitSearch /\ [][NextSince]_vars

\* ---------------------------------------------------------------------------
\* A first-time user: version 1.2.0 with an empty store and one anonymous
\* connection, on which the client registers a token, goes on calling tools,
\* and may reconnect
\* ---------------------------------------------------------------------------

InitSetup ==
    /\ version = "1.2.0"
    /\ PUBLIC_URL = <<"https://h">>
    /\ mcp_sessions = <<>>
    /\ mcp_interactions = <<>>
    /\ sessions = <<createMcpServer(Null, Null)>>
    /\ nextConn = 1
    /\ nCalls = 0
    /\ calls = NoCalls
    /\ returned = <<>>
    /\ http = Exchange(Null, Null, "initialize", 200, "", 1, <<>>, <<>>)

\* a tools/call on connection m, once the client's previous call has returned
UserCall(m, name, args, dbOk, logOk) ==
    /\ version = "1.2.0"
    /\ m \in DOMAIN sessions
    /\ nCalls < MaxTenantCalls
    /\ DOMAIN calls = {}
    /\ CallTool(m, Null, name, args, dbOk, logOk)

\* the tools the user calls
UserTools == {"setup_session", "search_x", "get_tweet"}

NextSetup ==
    \/ \E m \in DOMAIN sessions, name \in UserTools, logOk \in BOOLEAN :
          \E args \in ArgsOf(name), dbOk \in StoreOutcomes(name) :
              UserCall(m, name, args, dbOk, logOk)
    \/ \E m \in DOMAIN sessions : McpList(m)
    \/ \E sid \in SessionIdParams, dbOk \in BOOLEAN, touchOk \in BOOLEAN :
          McpConnect(0, sid, Null, dbOk, touchOk)
    \/ \E i \in DOMAIN calls, logOk \in BOOLEAN :
          \E res \in ResponsesFor(calls[i]) : UpstreamRespond(i, res, logOk)

SetupSpec == InitSetup /\ [][NextSetup]_vars

\* ---------------------------------------------------------------------------
\* Two tenants on one server: version 1.1.0 with two open connections, whose
\* clients send tools/call requests without waiting for each other or for
\* their own earlier invocations
\* ---------------------------------------------------------------------------

\* the server was booted with the session of token b in the store; connection
\* 1 was opened with that session's id and connection 2 with
\* x_bearer_token = a, which registered the second session
InitIsolation ==
    /\ version = "1.1.0"
    /\ PUBLIC_URL = <<>>
    /\ mcp_sessions = <<[session_id |-> Uuid(1), bearer_token |-> <<"b">>,
                         created_at |-> 0, last_used_at |-> 0],
                        [session_id |-> Uuid(2), bearer_token |-> <<"a">>,
                         created_at |-> 1, last_used_at |-> 1]>>
    /\ mcp_interactions = <<>>
    /\ sessions = <<createMcpServer(<<"b">>, Uuid(1)), createMcpServer(<<"a">>, Uuid(2))>>
    /\ nextConn = 2
    /\ nCalls = 0
    /\ calls = NoCalls
    /\ returned = <<>>
    /\ http = Exchange(Null, <<"a">>, "initialize", 200, "", 2,
                       <<StoreCall("createSession", TRUE)>>, <<>>)

\* POST /messages?sessionId=m with a tools/call body, whatever else is in
\* progress
TenantCall(m, name, args, dbOk, logOk) ==
    /\ version = "1.1.0"
    /\ m \in DOMAIN sessions
    /\ nCalls < MaxTenantCalls
    /\ CallTool(m, Null, name, args, dbOk, logOk)

\* the tools the two tenants call
TenantTools == {"setup_session", "search_x", "get_tweet", "nope"}

NextIsolation ==
    \/ \E m \in DOMAIN sessions, name \in TenantTools, logOk \in BOOLEAN :
          \E args \in ArgsOf(name), dbOk \in StoreOutcomes(name) :
              TenantCall(m, name, args, dbOk, logOk)
    \/ \E m \in DOMAIN sessions : SseClose(m)
    \/ \E i \in DOMAIN calls, logOk \in BOOLEAN :
          \E res \in ResponsesFor(calls[i]) : UpstreamRespond(i, res, logOk)

IsolationSpec == InitIsolation /\ [][NextIsolation]_vars

\* ---------------------------------------------------------------------------
\* Properties
\* ---------------------------------------------------------------------------

\* C1: no row of the interaction log contains a credential: neither the
\* recorded request nor the recorded response of any invocation, those of
\* setup_session included, contains the bearer token of a stored session.
C1_NoCredentialInLog ==
    \A i \in 1..Len(mcp_interactions) :
        LET req == mcp_interactions[i].request.arguments
            rsp == mcp_interactions[i].response
        IN \A j \in 1..Len(mcp_sessions) :
            LET credential == mcp_sessions[j].bearer_token
            IN /\ \A k \in DOMAIN req \cap {"bearer_token", "query", "username", "tweet_id"} :
                      ~IsSubstr(credential, req[k])
               /\ \A k \in DOMAIN rsp \cap {"session_id", "mcp_url"} :
                      ~IsSubstr(credential, rsp[k])

\* C2: the tools a connection lists are fixed by its context: exactly
\* setup_session when no credential is bound, setup_session followed by the
\* four data tools when one is bound; tools/list answers with that list.
C2_ToolListFixedByContext ==
    /\ \A c \in DOMAIN sessions :
          sessions[c].tools =
              IF sessions[c].bearerToken = Null
              THEN <<"setup_session">>
              ELSE <<"setup_session", "search_x", "get_profile", "get_thread", "get_tweet">>
    /\ (http.body = "tools/list" /\ http.status = 200)
          => http.tools = sessions[http.conn].tools

\* a connection with a credential has answered tools/list with the five tools
C2_Witness ==
    /\ http.body = "tools/list"
    /\ http.conn \in DOMAIN sessions
    /\ sessions[http.conn].bearerToken # Null
    /\ Len(http.tools) = 5

\* C3: on a connection without a credential every data tool returns the
\* error envelope of the missing bearer token (isError true) and no request
\* is ever sent to the X API on behalf of such a call.
C3_AnonymousDataCallFails ==
    /\ \A i \in DOMAIN calls : calls[i].bearerToken # Null
    /\ \A n \in 1..Len(returned) :
          (/\ returned[n].call.bearerToken = Null
           /\ returned[n].call.name \in {"search_x", "get_profile", "get_thread", "get_tweet"})
          => /\ returned[n].envelope.isError
             /\ returned[n].envelope.content.error = ErrNoToken
             /\ returned[n].call.requests = <<>>

\* search_x has returned on a connection opened without session id and token
C3_Witness ==
    /\ returned # <<>>
    /\ returned[1].call.name = "search_x"
    /\ returned[1].call.bearerToken = Null
    /\ returned[1].call.dbSessionId = Null
    /\ returned[1].envelope.isError

\* C4: in version 1.2.0 a tools/call request for an active connection goes to
\* that connection's dispatcher without resolving anything: the handler makes
\* no getSessionToken and no touchSession call, no connection is opened or
\* changed, the only store call is the createSession of a setup_session
\* invocation itself, and the bearer token and session id the invocation
\* uses (in its upstream requests and in its log entry) are those bound when
\* the connection was opened, whatever session_id the request carries.
C4_RoutedWithoutReResolution ==
    [][(version = "1.2.0" /\ nCalls' = nCalls + 1) =>
        LET c       == http'.conn
            started == IF returned' # <<>> THEN returned'[1].call ELSE calls'[nCalls']
        IN /\ c \in DOMAIN sessions
           /\ sessions' = sessions
           /\ nextConn' = nextConn
           /\ \A k \in 1..Len(http'.store) :
                 http'.store[k].op = "createSession" /\ started.name = "setup_session"
           /\ started.name # "setup_session" => mcp_sessions' = mcp_sessions
           /\ started.bearerToken = sessions[c].bearerToken
           /\ started.dbSessionId = sessions[c].dbSessionId
           /\ \A k \in 1..Len(started.requests) :
                 started.requests[k].bearer = sessions[c].bearerToken
           /\ \A n \in 1..Len(returned') :
                 returned'[n].logged[1].userIdentifier = sessions[c].dbSessionId
      ]_vars

\* a data tool was called on a connection with a credential by a request
\* whose session_id names another session, and its upstream request is out
C4_Witness ==
    /\ version = "1.2.0"
    /\ http.body = "tools/call"
    /\ http.status = 200
    /\ http.conn \in DOMAIN sessions
    /\ Truthy(sessions[http.conn].bearerToken)
    /\ Truthy(http.session_id)
    /\ http.session_id # sessions[http.conn].dbSessionId
    /\ \E i \in DOMAIN calls :
          /\ calls[i].conn = http.conn
          /\ calls[i].requests # <<>>
          /\ calls[i].requests[1].bearer = sessions[http.conn].bearerToken

\* C5: a request that opens a connection with a session id the store does not
\* hold is answered 401 "Session not found or expired.": no connection is
\* registered, the table mcp_sessions is unchanged, and the handler calls
\* neither createSession nor touchSession.
C5_UnknownSessionRefused ==
    [][(/\ http'.body = "initialize"
        /\ Truthy(http'.session_id)
        /\ RowsOf(http'.session_id) = {})
       => /\ http'.status = 401
          /\ http'.error = ErrSessionNotFound
          /\ http'.conn = 0
          /\ sessions' = sessions
          /\ nextConn' = nextConn
          /\ mcp_sessions' = mcp_sessions
          /\ \A k \in 1..Len(http'.store) : http'.store[k].op = "getSessionToken"
      ]_vars

\* the lookup of a well-formed session id succeeded, found no row, and the
\* request was refused
C5_Witness ==
    /\ http.body = "initialize"
    /\ http.status = 401
    /\ IsUuid(http.session_id)
    /\ RowsOf(http.session_id) = {}
    /\ http.store = <<StoreCall("getSessionToken", TRUE)>>

\* C6: when a request that opens a connection carries both session_id and
\* x_bearer_token, only session_id is used: createSession is not called and no
\* row is added; if the store holds no row for session_id the request is
\* refused and no connection is registered; otherwise the connection is bound
\* to session_id and to the token stored for it.
C6_SessionIdTakesPrecedence ==
    [][(/\ http'.body = "initialize"
        /\ Truthy(http'.session_id)
        /\ Truthy(http'.x_bearer_token))
       => /\ \A k \in 1..Len(http'.store) : http'.store[k].op # "createSession"
          /\ Len(mcp_sessions') = Len(mcp_sessions)
          /\ \A j \in 1..Len(mcp_sessions) :
                /\ mcp_sessions'[j].session_id = mcp_sessions[j].session_id
                /\ mcp_sessions'[j].bearer_token = mcp_sessions[j].bearer_token
          /\ RowsOf(http'.session_id) = {}
                => /\ http'.status = 401
                   /\ sessions' = sessions
          /\ http'.status = 200
                => /\ sessions'[http'.conn].dbSessionId = http'.session_id
                   /\ \E j \in RowsOf(http'.session_id) :
                         sessions'[http'.conn].bearerToken = mcp_sessions[j].bearer_token
      ]_vars

\* a request with an unknown session id and a raw token has been refused
C6_Witness ==
    /\ http.body = "initialize"
    /\ http.status = 401
    /\ IsUuid(http.session_id)
    /\ RowsOf(http.session_id) = {}
    /\ Truthy(http.x_bearer_token)

\* C7: a request that opens a connection with x_bearer_token and no session_id
\* creates one session for that token and, unless the store fails, binds the
\* connection to the new session id and the token, so that the data tools
\* are listed.
C7_RawCredentialCreatesSession ==
    (/\ http.body = "initialize"
     /\ ~Truthy(http.session_id)
     /\ Truthy(http.x_bearer_token)
     /\ \A k \in 1..Len(http.store) : http.store[k].ok)
    => /\ http.status = 200
       /\ http.conn \in DOMAIN sessions
       /\ http.store = <<StoreCall("createSession", TRUE)>>
       /\ sessions[http.conn].bearerToken = http.x_bearer_token
       /\ Truthy(sessions[http.conn].dbSessionId)
       /\ \E j \in RowsOf(sessions[http.conn].dbSessionId) :
             mcp_sessions[j].bearer_token = http.x_bearer_token
       /\ Len(sessions[http.conn].tools) = 5

\* C8: when getSessionToken or createSession fails while a connection is
\* being opened, the request fails and no connection is registered.
C8_StoreFailureRefusesConnection ==
    (/\ http.body = "initialize"
     /\ \E k \in 1..Len(http.store) :
           /\ http.store[k].op \in {"getSessionToken", "createSession"}
           /\ ~http.store[k].ok)
    => /\ http.status # 200
       /\ http.conn = 0

\* C9: setup_session with a bearer_token that is missing, empty or made of
\* blanks only returns the error envelope "bearer_token is required", does
\* not call createSession and leaves mcp_sessions unchanged.
C9_BlankTokenRejected ==
    [][\A n \in 1..Len(returned') :
          (/\ returned'[n].call.name = "setup_session"
           /\ \/ returned'[n].call.args.bearer_token = Null
              \/ \A k \in 1..Len(returned'[n].call.args.bearer_token) :
                    returned'[n].call.args.bearer_token[k] = SP)
          => /\ returned'[n].envelope.isError
             /\ returned'[n].envelope.content.error = ErrRequired
             /\ http'.store = <<>>
             /\ mcp_sessions' = mcp_sessions
      ]_vars

\* setup_session has returned for a token that is one blank
C9_Witness ==
    /\ returned # <<>>
    /\ returned[1].call.name = "setup_session"
    /\ returned[1].call.args.bearer_token = <<SP>>
    /\ returned[1].envelope.isError

\* C10 as stated: a successful setup_session(c) returns the session_id of the
\* row it created and an mcp_url that ends in it, and the store holds c for
\* that session_id.
C10_RoundTripReturnsArgument ==
    \A n \in 1..Len(returned) :
        (returned[n].call.name = "setup_session" /\ ~returned[n].envelope.isError)
        => LET payload == returned[n].envelope.content
           IN /\ payload.session_id = mcp_sessions[Len(mcp_sessions)].session_id
              /\ EndsWith(payload.mcp_url, payload.session_id)
              /\ \A j \in RowsOf(payload.session_id) :
                    mcp_sessions[j].bearer_token = returned[n].call.args.bearer_token

\* C10, amended: a successful setup_session(c) returns the session_id of the
\* row it created and an mcp_url that ends in it; the store holds c without
\* its leading and trailing blanks for that session_id, and every connection
\* bound to a stored session id is bound to the token stored for it.
C10_RoundTripReturnsTrimmed ==
    /\ \A n \in 1..Len(returned) :
          (returned[n].call.name = "setup_session" /\ ~returned[n].envelope.isError)
          => LET payload == returned[n].envelope.content
             IN /\ payload.session_id = mcp_sessions[Len(mcp_sessions)].session_id
                /\ EndsWith(payload.mcp_url, payload.session_id)
                /\ RowsOf(payload.session_id) # {}
                /\ \A j \in RowsOf(payload.session_id) :
                      mcp_sessions[j].bearer_token = Trim(returned[n].call.args.bearer_token)
    /\ \A c \in DOMAIN sessions :
          \A j \in RowsOf(sessions[c].dbSessionId) :
              sessions[c].bearerToken = mcp_sessions[j].bearer_token

\* version 1.2.0 binds tokens from the store only: a connection is bound to
\* the token "a", which setup_session(" a") stored, under the returned id
C10_Witness ==
    /\ version = "1.2.0"
    /\ \E c \in DOMAIN sessions :
          /\ sessions[c].bearerToken = <<"a">>
          /\ \E j \in RowsOf(sessions[c].dbSessionId) :
                mcp_sessions[j].bearer_token = <<"a">>

\* C11: stored sessions are independent and permanent: the session ids of
\* mcp_sessions are pairwise distinct, and no step removes a row or changes
\* the session_id or the bearer_token of a row, so that every id createSession
\* has returned keeps resolving to the token it was created with.
C11_SessionsPermanent ==
    [][/\ Len(mcp_sessions') >= Len(mcp_sessions)
       /\ \A j \in 1..Len(mcp_sessions) :
             /\ mcp_sessions'[j].session_id = mcp_sessions[j].session_id
             /\ mcp_sessions'[j].bearer_token = mcp_sessions[j].bearer_token
       /\ \A j, k \in 1..Len(mcp_sessions') :
             mcp_sessions'[j].session_id = mcp_sessions'[k].session_id => j = k
      ]_vars

\* a session has been reconnected to and touched, and a second session has
\* been created after it, with another token
C11_Witness ==
    /\ Len(mcp_sessions) = 2
    /\ mcp_sessions[1].last_used_at > mcp_sessions[1].created_at
    /\ mcp_sessions[1].bearer_token # mcp_sessions[2].bearer_token
    /\ \E c \in DOMAIN sessions : sessions[c].dbSessionId = mcp_sessions[1].session_id

\* C12: getSessionToken of an id that no row holds resolves with null, and
\* does not reject, while the database is available.
C12_LookupOfUnknownIdResolves ==
    \A sid \in SessionIdParams \ {Null} :
        RowsOf(sid) = {} => getSessionToken(sid, TRUE) = Resolved(Null)

\* C13: search_x with a metric sort returns exactly the fetched tweets whose
\* likes are at least min_likes, without a second tweet of the same id, in
\* non-increasing order of the metric, cut to the first `limit` (15 when
\* limit is omitted): every returned tweet was fetched and has enough likes,
\* the length is the smaller of the limit and the number of qualifying ids,
\* and no qualifying tweet that was cut has more of the metric than the last
\* one returned.
C13_FilterSortDedupeCut ==
    \A n \in 1..Len(returned) :
        LET call    == returned[n].call
            a       == call.args
            fetched == call.allTweets
            out     == returned[n].envelope.content.tweets
            lim     == IF a.limit = 0 THEN 15 ELSE a.limit
            enough  == {i \in 1..Len(fetched) : fetched[i].metrics.likes >= a.min_likes}
        IN (/\ call.name = "search_x"
            /\ ~returned[n].envelope.isError
            /\ a.sort \in {"likes", "impressions", "retweets"}
            /\ a.limit >= 0)
           => /\ \A i \in 1..Len(out) : \E j \in enough : out[i] = fetched[j]
              /\ \A i, j \in 1..Len(out) : out[i].id = out[j].id => i = j
              /\ \A i \in 1..(Len(out) - 1) :
                    out[i].metrics[a.sort] >= out[i + 1].metrics[a.sort]
              /\ Len(out) = Min(lim, Cardinality({fetched[j].id : j \in enough}))
              /\ \A j \in enough :
                    \/ \E i \in 1..Len(out) : out[i].id = fetched[j].id
                    \/ fetched[j].metrics[a.sort] <= out[Len(out)].metrics[a.sort]

\* the upstream returned three tweets with likes 10, 600 and 900; search_x
\* with sort = likes and min_likes = 500 has returned those with 900 and 600
C13_Witness ==
    /\ returned # <<>>
    /\ returned[1].call.name = "search_x"
    /\ returned[1].call.args.sort = "likes"
    /\ returned[1].call.args.min_likes = 500
    /\ returned[1].call.allTweets = parseTweets(<<RawA, RawB, RawC>>)
    /\ returned[1].envelope.content.tweets = parseTweets(<<RawC, RawB>>)

\* C14: search_x without a sort argument returns its tweets in non-increasing
\* order of likes, as with sort = likes.
C14_SortDefaultsToLikes ==
    \A n \in 1..Len(returned) :
        LET out == returned[n].envelope.content.tweets
        IN (/\ returned[n].call.name = "search_x"
            /\ ~returned[n].envelope.isError
            /\ returned[n].call.args.sort = "")
           => \A i \in 1..(Len(out) - 1) :
                 out[i].metrics.likes >= out[i + 1].metrics.likes

\* C15: one search_x invocation sends at least one and at most five page
\* requests to the X API, whatever its pages argument.
C15_PageRequestsBounded ==
    /\ \A i \in DOMAIN calls :
          calls[i].name = "search_x" => Len(calls[i].requests) <= 5
    /\ \A n \in 1..Len(returned) :
          returned[n].call.name = "search_x"
          => /\ Len(returned[n].call.requests) >= 1
             /\ Len(returned[n].call.requests) <= 5

\* C16: the tweets search_x returns have pairwise different ids.
C16_NoDuplicateIds ==
    \A n \in 1..Len(returned) :
        LET out == returned[n].envelope.content.tweets
        IN (returned[n].call.name = "search_x" /\ ~returned[n].envelope.isError)
           => \A i, j \in 1..Len(out) : out[i].id = out[j].id => i = j

\* the fetched tweets held the same id twice and search_x has returned
\* several tweets
C16_Witness ==
    /\ returned # <<>>
    /\ returned[1].call.name = "search_x"
    /\ ~returned[1].envelope.isError
    /\ \E i, j \in 1..Len(returned[1].call.allTweets) :
          i # j /\ returned[1].call.allTweets[i].id = returned[1].call.allTweets[j].id
    /\ Len(returned[1].envelope.content.tweets) >= 2

\* C17: search_x returns at most `limit` tweets for every limit argument, at
\* most 15 when limit is omitted, and count is the number of tweets returned.
C17_AtMostLimit ==
    \A n \in 1..Len(returned) :
        LET a   == returned[n].call.args
            out == returned[n].envelope.content
        IN (returned[n].call.name = "search_x" /\ ~returned[n].envelope.isError)
           => /\ Len(out.tweets) <= (IF a.limit = 0 THEN 15 ELSE a.limit)
              /\ out.count = Len(out.tweets)

\* C18: a 429 response makes the request fail with the rate-limit error, whose
\* wait is the x-rate-limit-reset header minus the current time in whole
\* seconds, 1 if that is less than 1, and 60 if there is no header; the tool
\* invocation returns that error (the root-tweet request of get_thread, whose
\* failures are caught, excepted).
C18_RateLimitWait ==
    \A n \in 1..Len(returned) :
        LET call == returned[n].call
            raw  == call.raw
            secs == raw.reset[1] - (raw.now \div 1000)
        IN (/\ raw.status = 429
            /\ ~(call.name = "get_thread"
                 /\ call.requests[Len(call.requests)].endpoint = "tweets"))
           => /\ returned[n].envelope.isError
              /\ returned[n].envelope.content.error = ErrRateLimited
              /\ returned[n].envelope.content.detail =
                    (IF raw.reset = NoHeader THEN 60
                     ELSE IF secs < 1 THEN 1 ELSE secs)

\* a 429 response whose reset header is 30 s ahead has failed an invocation
\* with a wait of 30
C18_Witness ==
    /\ returned # <<>>
    /\ returned[1].call.raw.status = 429
    /\ returned[1].call.raw.reset = <<130>>
    /\ returned[1].call.raw.now = 100500
    /\ returned[1].envelope.isError
    /\ returned[1].envelope.content = ErrorResultN(ErrRateLimited, 30)

\* C19: get_thread returns the tweets of the conversation search, and no
\* error, whatever goes wrong with the request for the root tweet; when that
\* request returns the root tweet, it is put in front of them.
C19_RootFailureSwallowed ==
    \A n \in 1..Len(returned) :
        LET call == returned[n].call
            raw  == call.raw
            out  == returned[n].envelope.content
        IN (/\ call.name = "get_thread"
            /\ call.requests # <<>>
            /\ call.requests[Len(call.requests)].endpoint = "tweets")
           => /\ ~returned[n].envelope.isError
              /\ out.tweets = IF raw.status = 200 /\ raw.data # <<>>
                              THEN parseTweets(raw.data) \o call.allTweets
                              ELSE call.allTweets
              /\ out.count = Len(out.tweets)

\* the request for the root tweet has failed and get_thread has returned the
\* tweets of the search
C19_Witness ==
    /\ returned # <<>>
    /\ returned[1].call.name = "get_thread"
    /\ returned[1].call.requests[Len(returned[1].call.requests)].endpoint = "tweets"
    /\ returned[1].call.raw.status # 200
    /\ returned[1].call.allTweets # <<>>
    /\ ~returned[1].envelope.isError
    /\ returned[1].envelope.content.tweets = returned[1].call.allTweets

\* C20: get_tweet for which the X API answers 200 without data returns
\* {tweet: null} with isError false.
C20_NoDataIsNull ==
    \A n \in 1..Len(returned) :
        (/\ returned[n].call.name = "get_tweet"
         /\ returned[n].call.raw.status = 200
         /\ returned[n].call.raw.data = <<>>)
        => /\ ~returned[n].envelope.isError
           /\ returned[n].envelope.content = [tweet |-> NullTweet]

\* get_tweet has returned for a 200 response without data
C20_Witness ==
    /\ returned # <<>>
    /\ returned[1].call.name = "get_tweet"
    /\ returned[1].call.raw.status = 200
    /\ returned[1].call.raw.data = <<>>
    /\ returned[1].envelope.content.tweet = NullTweet

\* C21: get_profile asks for the user first; when the response holds no user
\* the invocation returns the error "User not found" and no search request is
\* made for it.
C21_UnknownUserNoSearch ==
    /\ \A i \in DOMAIN calls :
          calls[i].name = "get_profile"
          => /\ calls[i].requests[1].endpoint = "users/by/username"
             /\ Len(calls[i].requests) > 1 => calls[i].user # NoUser
    /\ \A n \in 1..Len(returned) :
          LET call == returned[n].call
          IN (/\ call.name = "get_profile"
              /\ call.requests # <<>>
              /\ call.requests[Len(call.requests)].endpoint = "users/by/username"
              /\ call.raw.status = 200
              /\ call.raw.data = <<>>)
             => /\ returned[n].envelope.isError
                /\ returned[n].envelope.content.error = ErrUserNotFound
                /\ Len(call.requests) = 1

\* the user request of get_profile was answered 200 without data and the
\* invocation has returned an error after that one request
C21_Witness ==
    /\ returned # <<>>
    /\ returned[1].call.name = "get_profile"
    /\ returned[1].call.raw.status = 200
    /\ returned[1].call.raw.data = <<>>
    /\ Len(returned[1].call.requests) = 1
    /\ returned[1].envelope.isError

\* C22: get_profile returns at most `count` tweets for every count in 1..100,
\* when the X API returns no more tweets per page than the request's
\* max_results.
C22_AtMostCount ==
    \A n \in 1..Len(returned) :
        LET call == returned[n].call
        IN (/\ call.name = "get_profile"
            /\ ~returned[n].envelope.isError
            /\ call.args.count \in 1..100
            /\ Len(call.allTweets) <= call.maxResults)
           => Len(returned[n].envelope.content.tweets) <= call.args.count

\* C23: an invocation returns isError true exactly when its payload is an
\* error message, and every failure inside it ends that way: a missing or
\* blank bearer_token or a failed createSession in setup_session, a data tool
\* without a bearer token, an unknown tool name, a response of the X API that
\* is not a 200 (the root-tweet request of get_thread excepted), a user that
\* is not found.
C23_FailuresBecomeEnvelopes ==
    \A n \in 1..Len(returned) :
        LET call  == returned[n].call
            e     == returned[n].envelope
            token == call.args.bearer_token
            root  == /\ call.name = "get_thread"
                     /\ call.requests # <<>>
                     /\ call.requests[Len(call.requests)].endpoint = "tweets"
        IN /\ e.isError <=> "error" \in DOMAIN e.content
           /\ e.isError => e.content.error # ""
           /\ (\/ /\ call.name = "setup_session"
                  /\ \/ token = Null
                     \/ \A k \in 1..Len(token) : token[k] = SP
               \/ /\ call.name = "setup_session"
                  /\ \E k \in 1..Len(http.store) : ~http.store[k].ok
               \/ /\ call.name # "setup_session"
                  /\ call.bearerToken = Null
               \/ call.name \notin {"setup_session", "search_x", "get_profile",
                                    "get_thread", "get_tweet"}
               \/ /\ call.raw.status \notin {0, 200}
                  /\ ~root
               \/ /\ call.name = "get_profile"
                  /\ call.raw.status = 200
                  /\ call.raw.data = <<>>
                  /\ Len(call.requests) = 1)
              => e.isError

\* the X API answered 500 and the invocation has returned an error envelope
C23_Witness ==
    /\ returned # <<>>
    /\ returned[1].call.raw.status = 500
    /\ returned[1].call.name # "get_thread"
    /\ returned[1].envelope.isError
    /\ returned[1].envelope.content.error = ErrUpstream

\* C24: every invocation that returns, with or without an error, has called
\* logInteraction exactly once, with the tool name, the arguments, the payload
\* of the returned envelope and the session id of its connection (null when
\* the connection has none); a row is written only by such a call and holds
\* the same values.
C24_OneLogCallPerInvocation ==
    /\ Len(mcp_interactions) <= Len(returned)
    /\ \A n \in 1..Len(returned) :
          LET call == returned[n].call
          IN /\ Len(returned[n].logged) = 1
             /\ returned[n].logged[1] =
                   [toolName       |-> call.name,
                    request        |-> [tool |-> call.name, arguments |-> call.args],
                    response       |-> returned[n].envelope.content,
                    userIdentifier |-> call.dbSessionId]
             /\ call.conn \in DOMAIN sessions
                   => call.dbSessionId = sessions[call.conn].dbSessionId
             /\ \A k \in 1..Len(mcp_interactions) :
                   mcp_interactions[k] =
                       [user_identifier |-> call.dbSessionId,
                        tool_name       |-> call.name,
                        request         |-> [tool |-> call.name, arguments |-> call.args],
                        response        |-> returned[n].envelope.content]

\* a failed invocation on a connection with a session id has been logged
C24_Witness ==
    /\ returned # <<>>
    /\ returned[1].envelope.isError
    /\ returned[1].call.dbSessionId = Uuid(1)
    /\ mcp_interactions # <<>>
    /\ mcp_interactions[1].user_identifier = Uuid(1)
    /\ mcp_interactions[1].response = returned[1].envelope.content

\* C25: the envelope an invocation returns is determined by its connection,
\* its arguments, the responses of the X API and the outcome of its
\* createSession call, and is returned in the step that determines it,
\* whether the INSERT of logInteraction succeeds or not.
C25_LogFailureChangesNothing ==
    [][\A n \in 1..Len(returned') :
          LET r        == returned'[n]
              dbOk     == \A k \in 1..Len(http'.store) : http'.store[k].ok
              expected == IF r.id \in DOMAIN calls
                          THEN Resume(calls[r.id], r.call.raw)
                          ELSE HandleCall(NewCall(r.call.conn, r.call.name, r.call.args), dbOk)
          IN /\ r.call = expected
             /\ r.envelope = [content |-> expected.result, isError |-> expected.isError]
      ]_vars

\* a search has returned its tweets although the log write failed
C25_Witness ==
    /\ returned # <<>>
    /\ mcp_interactions = <<>>
    /\ returned[1].call.name = "search_x"
    /\ ~returned[1].envelope.isError
    /\ returned[1].envelope.content.tweets # <<>>

\* C26: an invocation that ends in an error envelope leaves the table of
\* connections as it was: its connection, if still open, keeps its bearer
\* token and session id; and the next invocation on a connection whose last
\* invocation failed is handled as any other, with that same credential.
C26_ErrorKeepsConnection ==
    [][/\ \A n \in 1..Len(returned') :
             returned'[n].envelope.isError =>
                 /\ sessions' = sessions
                 /\ LET c == returned'[n].call.conn
                    IN c \in DOMAIN sessions' =>
                          /\ sessions'[c].bearerToken = returned'[n].call.bearerToken
                          /\ sessions'[c].dbSessionId = returned'[n].call.dbSessionId
       /\ (/\ nCalls' = nCalls + 1
           /\ returned # <<>>
           /\ returned[1].envelope.isError
           /\ http'.conn = returned[1].call.conn) =>
              LET c     == returned[1].call.conn
                  dbOk  == \A k \in 1..Len(http'.store) : http'.store[k].ok
                  new   == IF nCalls + 1 \in DOMAIN calls' THEN calls'[nCalls + 1]
                           ELSE returned'[1].call
              IN /\ c \in DOMAIN sessions
                 /\ new.bearerToken = returned[1].call.bearerToken
                 /\ new.dbSessionId = returned[1].call.dbSessionId
                 /\ new = HandleCall(NewCall(c, new.name, new.args), dbOk)
      ]_vars

\* an invocation on connection 2 has failed; the connection is still in the
\* table with its credential and can take the next invocation
C26_Witness ==
    /\ returned # <<>>
    /\ returned[1].envelope.isError
    /\ returned[1].call.conn = 2
    /\ 2 \in DOMAIN sessions
    /\ sessions[2].bearerToken = <<"a">>
    /\ sessions[2].dbSessionId = Uuid(2)
    /\ nCalls < MaxTenantCalls

\* C27: the table of active connections changes only when a connection is
\* opened (a successful initialize adds the new connection and nothing else)
\* or closed (exactly one entry goes, the others stay as they are); it never
\* holds a connection that was not opened; no step of a tool invocation
\* changes it; and /health reports its size and changes nothing.
C27_TableWrittenAtOpenAndClose ==
    [][/\ DOMAIN sessions' \subseteq 1..nextConn'
       /\ \A c \in DOMAIN sessions \cap DOMAIN sessions' : sessions'[c] = sessions[c]
       /\ (http'.body = "initialize" /\ http'.status = 200 /\ http' # http) =>
             /\ http'.conn = nextConn + 1
             /\ DOMAIN sessions' = DOMAIN sessions \cup {http'.conn}
       /\ (DOMAIN sessions' # DOMAIN sessions) =>
             \/ /\ http'.body = "initialize"
                /\ http'.status = 200
                /\ DOMAIN sessions' = DOMAIN sessions \cup {nextConn + 1}
             \/ /\ http'.body \in {"DELETE", ""}
                /\ \E c \in DOMAIN sessions : DOMAIN sessions' = DOMAIN sessions \ {c}
                /\ http'.body = "DELETE" => DOMAIN sessions' = DOMAIN sessions \ {http'.conn}
                /\ returned' = <<>>
                /\ UNCHANGED <<nCalls, calls, nextConn>>
       /\ (nCalls' # nCalls \/ calls' # calls \/ returned' # <<>>) => sessions' = sessions
       /\ http'.body = "health" =>
             /\ http'.activeSessions = Cardinality(DOMAIN sessions)
             /\ UNCHANGED <<version, PUBLIC_URL, mcp_sessions, sessions, nextConn,
                            nCalls, calls>>
      ]_vars

\* two connections were opened and the first was closed: the table holds the
\* second and /health reports one active session
C27_Witness ==
    /\ nextConn = 2
    /\ DOMAIN sessions = {2}
    /\ http.body = "health"
    /\ http.activeSessions = 1

\* C28: however the invocations of two connections interleave, an invocation
\* starts with the bearer token and session id of the connection its request
\* came in on and keeps them until it returns; every X API request it makes
\* carries that bearer token, and its log entry that session id.
C28_TenantIsolation ==
    [][/\ \A i \in DOMAIN calls' :
             /\ \A k \in 1..Len(calls'[i].requests) :
                   calls'[i].requests[k].bearer = calls'[i].bearerToken
             /\ IF i \in DOMAIN calls
                THEN /\ calls'[i].conn = calls[i].conn
                     /\ calls'[i].bearerToken = calls[i].bearerToken
                     /\ calls'[i].dbSessionId = calls[i].dbSessionId
                ELSE /\ calls'[i].conn = http'.conn
                     /\ calls'[i].conn \in DOMAIN sessions
                     /\ calls'[i].bearerToken = sessions[calls'[i].conn].bearerToken
                     /\ calls'[i].dbSessionId = sessions[calls'[i].conn].dbSessionId
       /\ \A n \in 1..Len(returned') :
             LET r == returned'[n]
             IN /\ \A k \in 1..Len(r.call.requests) :
                      r.call.requests[k].bearer = r.call.bearerToken
                /\ IF r.id \in DOMAIN calls
                   THEN /\ r.call.conn = calls[r.id].conn
                        /\ r.call.bearerToken = calls[r.id].bearerToken
                        /\ r.call.dbSessionId = calls[r.id].dbSessionId
                   ELSE /\ r.call.conn = http'.conn
                        /\ r.call.conn \in DOMAIN sessions
                        /\ r.call.bearerToken = sessions[r.call.conn].bearerToken
                        /\ r.call.dbSessionId = sessions[r.call.conn].dbSessionId
                /\ \A k \in 1..Len(r.logged) :
                      r.logged[k].userIdentifier = r.call.dbSessionId
                /\ \A k \in 1..Len(mcp_interactions') :
                      mcp_interactions'[k].user_identifier = r.call.dbSessionId
       /\ \A c \in DOMAIN sessions \cap DOMAIN sessions' :
             /\ sessions'[c].bearerToken = sessions[c].bearerToken
             /\ sessions'[c].dbSessionId = sessions[c].dbSessionId
      ]_vars

\* both tenants have an invocation waiting for the X API at the same time,
\* each with a request signed with its own token
C28_Witness ==
    \E i \in DOMAIN calls, j \in DOMAIN calls :
        /\ calls[i].conn = 1
        /\ calls[j].conn = 2
        /\ calls[i].requests # <<>>
        /\ calls[j].requests # <<>>
        /\ calls[i].requests[1].bearer = <<"b">>
        /\ calls[j].requests[1].bearer = <<"a">>

\* C29: a new connection whose session_id resolves to a stored token calls
\* touchSession exactly once, after the lookup; whether the UPDATE succeeds or
\* fails, the connection is established with the looked-up token and the
\* session id; the table mcp_sessions keeps its rows, and only last_used_at
\* of the resolved session changes, and only if the UPDATE succeeded.
C29_TouchOnResolution ==
    [][(/\ http' # http
        /\ http'.body = "initialize"
        /\ http'.status = 200
        /\ Truthy(http'.session_id)) =>
              LET sid == http'.session_id
              IN /\ RowsOf(sid) # {}
                 /\ Len(http'.store) = 2
                 /\ http'.store[1] = StoreCall("getSessionToken", TRUE)
                 /\ http'.store[2].op = "touchSession"
                 /\ http'.conn \in DOMAIN sessions' \ DOMAIN sessions
                 /\ \A i \in RowsOf(sid) :
                       sessions'[http'.conn].bearerToken = mcp_sessions[i].bearer_token
                 /\ sessions'[http'.conn].dbSessionId = sid
                 /\ Len(mcp_sessions') = Len(mcp_sessions)
                 /\ \A i \in 1..Len(mcp_sessions) :
                       mcp_sessions'[i] =
                           IF mcp_sessions[i].session_id = sid /\ http'.store[2].ok
                           THEN [mcp_sessions[i] EXCEPT !.last_used_at = clock]
                           ELSE mcp_sessions[i]
      ]_vars

\* the second connection was opened with the stored session id, the UPDATE of
\* touchSession failed, and the connection has the stored token all the same
C29_Witness ==
    /\ http.body = "initialize"
    /\ http.status = 200
    /\ http.session_id = Uuid(1)
    /\ http.conn = 2
    /\ http.store = <<StoreCall("getSessionToken", TRUE), StoreCall("touchSession", FALSE)>>
    /\ 2 \in DOMAIN sessions
    /\ sessions[2].bearerToken = <<"b">>
    /\ sessions[2].dbSessionId = Uuid(1)
    /\ mcp_sessions[1].last_used_at = 0

\* C30: api.search has at most one page request outstanding: the first has no
\* pagination token; when the response to page N is a 200, its tweets are
\* appended to those of the earlier pages, and the request of page N+1 is
\* made exactly when the response has a next_token and fewer than `pages`
\* pages were fetched, with that next_token as pagination token; otherwise no
\* further page is requested and the pages fetched so far, in fetch order,
\* are the result.
C30_PagesInSequence ==
    [][\A i \in DOMAIN calls :
          LET old    == calls[i]
              new    == IF i \in DOMAIN calls' THEN calls'[i] ELSE returned'[1].call
              res    == new.raw
              IsPage(r) == r.endpoint = "tweets/search/recent"
              before == SelectSeq(old.requests, IsPage)
              after  == SelectSeq(new.requests, IsPage)
          IN (old.pc = "search" /\ new # old) =>
                /\ Len(before) = old.page + 1
                /\ before[1].pagination_token = Null
                /\ IF res.status # 200
                   THEN /\ new.pc = "done"
                        /\ new.isError
                        /\ new.requests = old.requests
                   ELSE /\ new.allTweets = old.allTweets \o parseTweets(res.data)
                        /\ IF Truthy(res.next_token) /\ old.page + 1 < old.pages
                           THEN /\ new.pc = "search"
                                /\ new.page = old.page + 1
                                /\ new.requests = Append(old.requests, new.requests[Len(new.requests)])
                                /\ after = Append(before,
                                                  [before[1] EXCEPT !.pagination_token = res.next_token])
                           ELSE /\ new.pc # "search"
                                /\ after = before
                                /\ (new.name = "get_profile" /\ new.pc = "done") =>
                                       new.result.tweets = new.allTweets
      ]_vars

\* a search over two pages has returned: the second request carried the token
\* of the first response, the second response had a token too, and the six
\* tweets of both pages were collected
C30_Witness ==
    /\ returned # <<>>
    /\ returned[1].call.name = "search_x"
    /\ ~returned[1].envelope.isError
    /\ returned[1].call.pages = 2
    /\ Len(returned[1].call.requests) = 2
    /\ returned[1].call.requests[1].pagination_token = Null
    /\ returned[1].call.requests[2].pagination_token = <<"next">>
    /\ Truthy(returned[1].call.raw.next_token)
    /\ Len(returned[1].call.allTweets) = 6

\* C31: search_x goes on to the next page whenever the response has a token
\* and the page count allows, however many tweets it already has; what it
\* returns is cut from the tweets of all fetched pages: with a metric sort and
\* a limit, no qualifying fetched tweet that is left out has more of the
\* metric than the last tweet returned, and fewer than `limit` tweets are
\* returned only when there are no more qualifying ids.
C31_FetchAllThenTruncate ==
    [][/\ \A i \in DOMAIN calls :
             LET old == calls[i]
                 new == IF i \in DOMAIN calls' THEN calls'[i] ELSE returned'[1].call
             IN (/\ old.pc = "search"
                 /\ old.name = "search_x"
                 /\ new # old
                 /\ new.raw.status = 200
                 /\ Truthy(new.raw.next_token)
                 /\ old.page + 1 < old.pages)
                => /\ new.pc = "search"
                   /\ Len(new.requests) = Len(old.requests) + 1
                   /\ Len(new.allTweets) = Len(old.allTweets) + Len(new.raw.data)
       /\ \A n \in 1..Len(returned') :
             LET call    == returned'[n].call
                 a       == call.args
                 fetched == call.allTweets
                 out     == returned'[n].envelope.content.tweets
                 enough  == {j \in 1..Len(fetched) : fetched[j].metrics.likes >= a.min_likes}
             IN (/\ call.name = "search_x"
                 /\ ~returned'[n].envelope.isError
                 /\ a.sort \in {"likes", "impressions", "retweets"}
                 /\ a.limit > 0)
                => /\ Len(out) = Min(a.limit, Cardinality({fetched[j].id : j \in enough}))
                   /\ \A j \in enough :
                         \/ \E k \in 1..Len(out) : out[k] = fetched[j]
                         \/ /\ out # <<>>
                            /\ fetched[j].metrics[a.sort] <= out[Len(out)].metrics[a.sort]
      ]_vars

\* search_x with limit 2 had seven tweets after the first page and fetched
\* the second all the same; both tweets it returned are from the second page
C31_Witness ==
    /\ returned # <<>>
    /\ returned[1].call.name = "search_x"
    /\ returned[1].call.args.limit = 2
    /\ returned[1].call.args.sort = "likes"
    /\ Len(returned[1].call.requests) = 2
    /\ returned[1].call.allTweets = parseTweets(MidPage \o <<RawA, RawB, RawC>>)
    /\ returned[1].envelope.content.tweets = parseTweets(<<RawC, RawB>>)

\* C32: a response of the X API with a status other than 200 is the last
\* step of its invocation: no request is added, the one that failed is not
\* repeated, and the invocation returns at once, with the error of that
\* response (get_thread, which catches a failure of its root-tweet request,
\* returns the tweets of its search instead).
C32_NoRetry ==
    [][\A i \in DOMAIN calls :
          LET old == calls[i]
              new == IF i \in DOMAIN calls' THEN calls'[i] ELSE returned'[1].call
          IN (new # old /\ new.raw.status # 200) =>
                /\ i \notin DOMAIN calls'
                /\ returned'[1].id = i
                /\ new.requests = old.requests
                /\ new.pc = "done"
                /\ old.pc # "root" =>
                      /\ returned'[1].envelope.isError
                      /\ returned'[1].envelope.content = apiGetError(new.raw)
      ]_vars

\* the request of the second page of a search was answered with 429: the
\* invocation has ended with the rate-limit error after two requests
C32_Witness ==
    /\ returned # <<>>
    /\ returned[1].call.name = "search_x"
    /\ returned[1].call.raw.status = 429
    /\ Len(returned[1].call.requests) = 2
    /\ returned[1].call.page = 1
    /\ returned[1].envelope.isError
    /\ returned[1].envelope.content.error = ErrRateLimited

\* C33: for every fetched sequence S, dedupe(S) holds, in the order of S,
\* exactly the first tweet of each id of S: its ids are pairwise different,
\* every id of S is among them, and dedupe(dedupe(S)) = dedupe(S); a search_x
\* without sort and min_likes returns dedupe(S).
C33_DedupeFirstSeenIdempotent ==
    \A n \in 1..Len(returned) :
        LET call  == returned[n].call
            S     == call.allTweets
            D     == dedupe(S)
            first == {i \in 1..Len(S) : \A j \in 1..(i - 1) : S[j].id # S[i].id}
        IN (call.name = "search_x" /\ ~returned[n].envelope.isError) =>
              /\ dedupe(D) = D
              /\ \A i, j \in 1..Len(D) : D[i].id = D[j].id => i = j
              /\ {D[i].id : i \in 1..Len(D)} = {S[i].id : i \in 1..Len(S)}
              /\ Len(D) = Cardinality(first)
              /\ \A k \in 1..Len(D) :
                    \E i \in first : /\ Cardinality({j \in first : j <= i}) = k
                                     /\ D[k] = S[i]
              /\ (call.args.sort = "" /\ call.args.min_likes = 0) =>
                    returned[n].envelope.content.tweets = D

\* the page held tweet 1, tweet 2 and tweet 1 again with other metrics:
\* search_x has returned the first tweet 1 and tweet 2
C33_Witness ==
    /\ returned # <<>>
    /\ returned[1].call.name = "search_x"
    /\ returned[1].call.args.sort = ""
    /\ returned[1].call.args.min_likes = 0
    /\ returned[1].call.allTweets = parseTweets(<<RawA, RawB, RawA2>>)
    /\ returned[1].envelope.content.tweets = parseTweets(<<RawA, RawB>>)

\* C34: for every fetched sequence S and metric m, sortBy(S, m) is a
\* permutation of S in non-increasing order of m in which tweets of equal m
\* keep their order in S: the tweet at position i of S comes after exactly the
\* tweets with more of m and the earlier tweets with as much.  S itself stays
\* as fetched, and a search_x sorted by m over tweets of different ids
\* returns sortBy(S, m).
C34_SortStableDescending ==
    \A n \in 1..Len(returned) :
        LET call == returned[n].call
            S    == call.allTweets
        IN (call.name = "search_x" /\ ~returned[n].envelope.isError) =>
              /\ S = parseTweets(call.raw.data)
              /\ \A m \in {"likes", "impressions", "retweets"} :
                    LET T == sortBy(S, m)
                        rank == [i \in 1..Len(S) |->
                                    1 + Cardinality({j \in 1..Len(S) :
                                            \/ S[j].metrics[m] > S[i].metrics[m]
                                            \/ /\ S[j].metrics[m] = S[i].metrics[m]
                                               /\ j < i})]
                    IN /\ Len(T) = Len(S)
                       /\ \A k \in 1..(Len(T) - 1) : T[k].metrics[m] >= T[k + 1].metrics[m]
                       /\ \A i \in 1..Len(S) : T[rank[i]] = S[i]
                       /\ (/\ call.args.sort = m
                           /\ call.args.min_likes = 0
                           /\ \A i, j \in 1..Len(S) : S[i].id = S[j].id => i = j) =>
                              returned[n].envelope.content.tweets = T

\* sorted by retweets, of which tweets 3 and 2 have seven each: tweet 3,
\* which came first, is returned first
C34_Witness ==
    /\ returned # <<>>
    /\ returned[1].call.name = "search_x"
    /\ returned[1].call.args.sort = "retweets"
    /\ returned[1].call.args.min_likes = 0
    /\ returned[1].call.allTweets = parseTweets(<<RawA, RawC, RawB>>)
    /\ returned[1].envelope.content.tweets = parseTweets(<<RawC, RawB, RawA>>)

\* C35: for every fetched sequence S and thresholds minLikes, minImpressions
\* (0: not supplied), filterEngagement returns, in the order of S, exactly the
\* tweets of S that have at least minLikes likes and at least minImpressions
\* impressions; without thresholds it returns S; a search_x with min_likes
\* and no sort over tweets of different ids returns filterEngagement of S.
C35_FilterKeepsExactlyQualifying ==
    \A n \in 1..Len(returned) :
        LET call == returned[n].call
            S    == call.allTweets
        IN (call.name = "search_x" /\ ~returned[n].envelope.isError) =>
              /\ \A ml \in {0, 10, 600}, mi \in {0, 5} :
                    LET F    == filterEngagement(S, [minLikes |-> ml, minImpressions |-> mi])
                        kept == {i \in 1..Len(S) : /\ S[i].metrics.likes >= ml
                                                   /\ S[i].metrics.impressions >= mi}
                    IN /\ Len(F) = Cardinality(kept)
                       /\ \A k \in 1..Len(F) :
                             /\ F[k].metrics.likes >= ml
                             /\ F[k].metrics.impressions >= mi
                             /\ \E i \in kept : /\ Cardinality({j \in kept : j <= i}) = k
                                                /\ F[k] = S[i]
                       /\ (ml = 0 /\ mi = 0) => F = S
              /\ (/\ call.args.sort = ""
                  /\ call.args.min_likes # 0
                  /\ \A i, j \in 1..Len(S) : S[i].id = S[j].id => i = j) =>
                     returned[n].envelope.content.tweets =
                         filterEngagement(S, [minLikes |-> call.args.min_likes,
                                              minImpressions |-> 0])

\* with min_likes = 600, the tweet with 10 likes was dropped and the one with
\* exactly 600 was kept
C35_Witness ==
    /\ returned # <<>>
    /\ returned[1].call.name = "search_x"
    /\ returned[1].call.args.sort = ""
    /\ returned[1].call.args.min_likes = 600
    /\ returned[1].call.allTweets = parseTweets(<<RawA, RawB, RawC>>)
    /\ returned[1].envelope.content.tweets = parseTweets(<<RawB, RawC>>)

\* C36: a search_x with a since argument always issues its search: for a
\* since of the form <integer><m|h|d> the request has start_time = now minus
\* that many minutes, hours or days; for a since that is neither of that form
\* nor an absolute timestamp the request has no start_time.
C36_SinceResolvedOrIgnored ==
    [][nCalls' = nCalls + 1 =>
          LET new   == IF nCalls + 1 \in DOMAIN calls' THEN calls'[nCalls + 1]
                       ELSE returned'[1].call
              since == SinceOf(new.args)
              num   == parseInt(SubSeq(since, 1, Len(since) - 1))
              unit  == since[Len(since)]
          IN (new.name = "search_x" /\ Truthy(since)) =>
                /\ nCalls + 1 \in DOMAIN calls'
                /\ Len(new.requests) = 1
                /\ new.requests[1].start_time =
                      CASE IsRelative(since) /\ unit = "m" -> <<DateNow - num * 60>>
                        [] IsRelative(since) /\ unit = "h" -> <<DateNow - num * 3600>>
                        [] IsRelative(since) /\ unit = "d" -> <<DateNow - num * 86400>>
                        [] since = IsoStamp                -> <<19997 * 86400>>
                        [] OTHER                           -> NoTime
      ]_vars

\* C37: setup_session leaves the table of connections as it is, whatever its
\* outcome; every invocation runs with the bearer token and session id its
\* connection was opened with, so that on a connection opened without a token
\* every data tool fails with the no-token error and tools/list gives
\* setup_session alone, also after a setup_session on that connection has
\* stored a session.
C37_SetupLeavesContext ==
    [][/\ nCalls' = nCalls + 1 =>
             LET new == IF nCalls + 1 \in DOMAIN calls' THEN calls'[nCalls + 1]
                        ELSE returned'[1].call
                 c   == new.conn
             IN /\ c \in DOMAIN sessions
                /\ new.bearerToken = sessions[c].bearerToken
                /\ new.dbSessionId = sessions[c].dbSessionId
                /\ new.name = "setup_session" => sessions' = sessions
                /\ ((\E k \in 1..Len(X_TOOLS) : X_TOOLS[k] = new.name) /\ ~Truthy(sessions[c].bearerToken)) =>
                      /\ returned' # <<>>
                      /\ returned'[1].envelope.isError
                      /\ returned'[1].envelope.content.error = ErrNoToken
                      /\ returned'[1].logged[1].userIdentifier = Null
       /\ (http'.body = "tools/list" /\ http' # http) =>
             /\ sessions' = sessions
             /\ http'.tools = IF Truthy(sessions[http'.conn].bearerToken)
                              THEN <<SETUP_TOOL>> \o X_TOOLS
                              ELSE <<SETUP_TOOL>>
      ]_vars

\* the anonymous connection has registered a token, which is in the store,
\* and its next call, a search, has failed for want of a token
C37_Witness ==
    /\ nCalls = 2
    /\ mcp_sessions # <<>>
    /\ returned # <<>>
    /\ returned[1].call.conn = 1
    /\ returned[1].call.name = "search_x"
    /\ returned[1].envelope.isError
    /\ returned[1].envelope.content.error = ErrNoToken
    /\ sessions[1].bearerToken = Null
    /\ sessions[1].tools = <<SETUP_TOOL>>

\* C38: when the conversation search returned tweets of pairwise different
\* ids, the tweets get_thread returns have pairwise different ids too.
C38_ThreadRootOnce ==
    \A n \in 1..Len(returned) :
        LET call    == returned[n].call
            fetched == call.allTweets
            out     == returned[n].envelope.content.tweets
        IN (/\ call.name = "get_thread"
            /\ ~returned[n].envelope.isError
            /\ \A i, j \in 1..Len(fetched) : fetched[i].id = fetched[j].id => i = j)
           => \A i, j \in 1..Len(out) : out[i].id = out[j].id => i = j

\* C39: a search whose request for any page is answered with a status other
\* than 200 makes its invocation return the error of that response and
\* nothing else: no tweet of the pages fetched before is in the envelope.
C39_SearchAllOrNothing ==
    \A n \in 1..Len(returned) :
        LET call == returned[n].call
            out  == returned[n].envelope
        IN (/\ call.requests # <<>>
            /\ call.requests[Len(call.requests)].endpoint = "tweets/search/recent"
            /\ call.raw.status # 200)
           => /\ out.isError
              /\ out.content = apiGetError(call.raw)
              /\ DOMAIN out.content = {"error", "detail"}
              /\ Len(call.requests) >= call.page + 1

\* the first page of a search_x brought tweets and the request for the second
\* page was answered with 429: the invocation has returned the error
C39_Witness ==
    /\ returned # <<>>
    /\ returned[1].call.name = "search_x"
    /\ returned[1].call.page = 1
    /\ returned[1].call.allTweets # <<>>
    /\ returned[1].call.raw.status = 429
    /\ returned[1].envelope.isError
    /\ returned[1].envelope.content = ErrorResultN(ErrRateLimited, 30)

\* C40: a step of one invocation changes no other invocation, and what it
\* does to its own is fixed by that invocation's record and the response it
\* received (for a new invocation: by its connection, its arguments and the
\* outcome of its store call), whatever other invocations are in progress on
\* the same or on other connections.
C40_InvocationsIndependent ==
    [][/\ \A j \in DOMAIN calls \cap DOMAIN calls' :
             \/ calls'[j] = calls[j]
             \/ /\ calls'[j] = Resume(calls[j], calls'[j].raw)
                /\ returned' = <<>>
                /\ \A k \in DOMAIN calls \ {j} : k \in DOMAIN calls' /\ calls'[k] = calls[k]
       /\ \A j \in DOMAIN calls \ DOMAIN calls' :
             /\ Len(returned') = 1
             /\ returned'[1].id = j
             /\ returned'[1].call = Resume(calls[j], returned'[1].call.raw)
             /\ returned'[1].envelope = Envelope(returned'[1].call)
             /\ \A k \in DOMAIN calls \ {j} : k \in DOMAIN calls' /\ calls'[k] = calls[k]
       /\ nCalls' = nCalls + 1 =>
             LET new  == IF nCalls + 1 \in DOMAIN calls' THEN calls'[nCalls + 1]
                         ELSE returned'[1].call
                 dbOk == \A k \in 1..Len(http'.store) : http'.store[k].ok
             IN /\ new = HandleCall(NewCall(new.conn, new.name, new.args), dbOk)
                /\ \A k \in DOMAIN calls : k \in DOMAIN calls' /\ calls'[k] = calls[k]
      ]_vars

\* the second invocation has returned its tweets while the first, begun
\* earlier on the same connection, is still waiting for the X API
C40_Witness ==
    /\ returned # <<>>
    /\ returned[1].id = 2
    /\ ~returned[1].envelope.isError
    /\ returned[1].call.name = "search_x"
    /\ returned[1].envelope.content.tweets # <<>>
    /\ 1 \in DOMAIN calls
    /\ calls[1].conn = returned[1].call.conn
    /\ calls[1].name = "search_x"
    /\ calls[1].allTweets # <<>>

====
